---- MODULE Spec2Model ----
(***************************************************************************)
(* A model of the conversation-aware message pipeline of Iris Origin:      *)
(* ConversationContextManager (utils/conversation_context.py),             *)
(* EnterpriseAIProcessor.process_message (core/ai_processor.py) and        *)
(* SimpleAIProcessor (simple_processor.py).                                *)
(*                                                                         *)
(* Conventions.                                                            *)
(*  - Identifiers (user_id, session_id, cache keys) are TLC strings; the   *)
(*    cache key is built by concatenation, as the f-string builds it.      *)
(*  - Message texts are sequences of Unicode code points (104 = 'h',       *)
(*    3588 = THAI KO KHWAI), so substring tests, lower-casing and the      *)
(*    character classes are computed as the code computes them.            *)
(*  - Confidences are in tenths (5 is 0.5); a quotient is a pair           *)
(*    <<numerator, denominator>>; user_engagement is in hundredths.        *)
(*  - datetime.now() is the variable now, an abstract clock; a handler of  *)
(*    the sequential specifications runs in zero time and Tick advances    *)
(*    the clock between handlers.                                          *)
(*  - A call of the sequential specifications is one action: it models    *)
(*    the whole handler, the calls it makes included.                      *)
(***************************************************************************)
EXTENDS Integers, Sequences, FiniteSets, TLC

VARIABLES
    active_conversations,  \* self.active_conversations: key -> ConversationContext
    user_profiles,         \* self.user_profiles: user_id -> UserProfile
    now,                   \* datetime.now()
    arrivals,              \* history variable: key -> messages recorded in the cached context
    processed,             \* history variable: user_id -> messages processed for the user
    tasks,                 \* the update_context coroutines on the event loop: task -> frame
    request,               \* the last call of process_message: its arguments
    result                 \* the last call of process_message: what it returned

mgr_vars == <<active_conversations, user_profiles, now, arrivals, processed>>
call_vars == <<tasks, request, result>>
vars == <<mgr_vars, call_vars>>

----------------------------------------------------------------------------
(* Configuration (ConversationContextManager._get_default_config); the     *)
(* values are configurable, the model runs them small.                     *)

MaxHistoryLength == 6
MaxMemoryConversations == 2
ContextExpiryHours == 2

\* EnterpriseAIProcessor's config['performance']['timeout_seconds'], in clock units
TimeoutSeconds == 1

(* Bounds of the model. *)
MaxTime == 2
MaxCalls == 2
WarmMessages == 19
MaxProfileCalls == 3

(* The length sentiment_history is cut to. *)
SentimentHistoryCap == 20

(* 0.9 ** age is kept in fixed point with PowScale = 10^6. *)
PowScale == 1000000

----------------------------------------------------------------------------
(* Small helpers. *)

Min2(a, b) == IF a <= b THEN a ELSE b
Max2(a, b) == IF a >= b THEN a ELSE b

\* the elements of a list, the values of a dict
Range(f) == {f[x] : x \in DOMAIN f}

\* s[-n:] of a Python list
LastN(s, n) == IF Len(s) <= n THEN s ELSE SubSeq(s, Len(s) - n + 1, Len(s))

\* list.count(x)
Count(s, x) == Cardinality({i \in 1..Len(s) : s[i] = x})

\* `needle in text` for Python strings (code point sequences)
Contains(text, needle) ==
    \/ Len(needle) = 0
    \/ \E i \in 1..(Len(text) - Len(needle) + 1) :
          SubSeq(text, i, i + Len(needle) - 1) = needle

\* str.lower() on the characters the model uses (ASCII, Latin-1, Thai and a few
\* symbols: only A-Z and the Latin-1 capitals change)
LowerChar(c) == IF c \in 65..90 \/ (c \in 192..222 /\ c # 215) THEN c + 32 ELSE c
Lower(text) == [i \in 1..Len(text) |-> LowerChar(text[i])]

----------------------------------------------------------------------------
(* ConversationContextManager: identifiers and keys. *)

\* The session_id argument left out (None); `if not session_id` also takes "" so.
NoSession == ""

UserIndex(user_id) == IF user_id = "a" THEN "1" ELSE IF user_id = "a:b" THEN "2" ELSE "3"

\* hashlib.md5(f"{user_id}:{timestamp}").hexdigest()[:16]: a hex string (no ':'),
\* taken as collision-free: one digest per (user_id, timestamp).
GenerateSessionId(user_id, t) == "md5u" \o UserIndex(user_id) \o "t" \o ToString(t)

\* hashlib.md5(f"msg:{timestamp}").hexdigest()[:12]
GenerateMessageId(t) == "msgt" \o ToString(t)

\* context_key = f"{user_id}:{session_id}"
ContextKey(user_id, session_id) == user_id \o ":" \o session_id

SessionOf(user_id, session_id, t) ==
    IF session_id = NoSession THEN GenerateSessionId(user_id, t) ELSE session_id

----------------------------------------------------------------------------
(* ConversationContextManager: the objects. *)

\* context_data = {} ; keys is the set of keys the dict holds
EmptyContextData ==
    [keys |-> {},
     recent_intents |-> <<>>, recent_sentiments |-> <<>>,
     conversation_flow |-> [pattern |-> "initial", transitions |-> <<>>],
     user_engagement |-> 0,
     session_summary |-> [status |-> "no_activity"],
     recommended_actions |-> <<>>]

InsightKeys == {"recent_intents", "recent_sentiments", "conversation_flow",
                "user_engagement", "session_summary", "recommended_actions"}

\* _create_new_context
CreateNewContext(user_id, session_id, t) ==
    [user_id |-> user_id, session_id |-> session_id,
     conversation_history |-> <<>>,
     current_intent |-> "greeting", current_sentiment |-> "neutral",
     context_data |-> EmptyContextData,
     last_updated |-> t, session_duration |-> 0,
     message_count |-> 0, unresolved_issues |-> <<>>]

\* the ConversationContext that get_context's except branch builds
FallbackContext(user_id, session_id, t) ==
    [CreateNewContext(user_id, session_id, t) EXCEPT !.current_intent = "unknown"]

\* _create_new_profile
CreateNewProfile(user_id, t) ==
    [user_id |-> user_id, name |-> "None",
     preferred_language |-> "en", communication_style |-> "neutral",
     frequent_intents |-> <<>>, sentiment_history |-> <<>>,
     interaction_count |-> 0, first_seen |-> t, last_seen |-> t,
     satisfaction_score |-> <<1, 2>>, platform_usage |-> <<>>]

\* IntentResult / SentimentResult of core/ai_processor.py, as update_context reads them
IntentResult(intent, confidence) == [intent |-> intent, confidence |-> confidence]
SentimentResult(sentiment, confidence) == [sentiment |-> sentiment, confidence |-> confidence]

\* the ConversationMessage update_context builds (IntentResult has no `language`)
NewMessage(user_id, intent_result, sentiment_result, entities, message_text, platform, t) ==
    [user_id |-> user_id, message_id |-> GenerateMessageId(t),
     text |-> message_text,
     intent |-> intent_result.intent, sentiment |-> sentiment_result.sentiment,
     language |-> "unknown", timestamp |-> t, platform |-> platform,
     confidence |-> intent_result.confidence, entities |-> entities]

\* a deque that refuses the new element when it is full, instead of dropping the oldest
DequeAppendKeepOldest(history, x, maxlen) ==
    IF Len(history) >= maxlen THEN history ELSE Append(history, x)

\* deque(maxlen=n).append(x)
DequeAppend(history, x, maxlen) ==
    IF maxlen = 0 THEN history
    ELSE IF Len(history) >= maxlen THEN Append(Tail(history), x)
    ELSE Append(history, x)

\* _is_context_valid: last_updated > now - timedelta(hours=context_expiry_hours)
IsContextValid(context, t) == context.last_updated > t - ContextExpiryHours

----------------------------------------------------------------------------
(* ConversationContextManager: the insights of _update_context_insights. *)

Intents(history) == [i \in 1..Len(history) |-> history[i].intent]
Sentiments(history) == [i \in 1..Len(history) |-> history[i].sentiment]

RECURSIVE SumConfidence(_)
SumConfidence(history) ==
    IF Len(history) = 0 THEN 0
    ELSE history[1].confidence + SumConfidence(Tail(history))

\* a flow analysis that tests the number of transitions before the intents
AnalyzeConversationFlowLengthFirst(history) ==
    IF Len(history) < 2 THEN [pattern |-> "initial", transitions |-> <<>>]
    ELSE LET transitions == [i \in 1..(Len(history) - 1) |->
                                <<history[i].intent, history[i + 1].intent>>]
             diversity == Cardinality(Range(Intents(history)))
         IN  [pattern |-> IF Len(transitions) <= 3 THEN "simple"
                          ELSE IF diversity = 1 THEN "single_intent"
                          ELSE "complex",
              transitions |-> transitions,
              intent_diversity |-> diversity,
              average_confidence |-> <<SumConfidence(history), Len(history)>>]

\* _analyze_conversation_flow
AnalyzeConversationFlow(history) ==
    IF Len(history) < 2 THEN [pattern |-> "initial", transitions |-> <<>>]
    ELSE LET transitions == [i \in 1..(Len(history) - 1) |->
                                <<history[i].intent, history[i + 1].intent>>]
             diversity == Cardinality(Range(Intents(history)))
         IN  [pattern |-> IF diversity = 1 THEN "single_intent"
                          ELSE IF Len(transitions) <= 3 THEN "simple"
                          ELSE "complex",
              transitions |-> transitions,
              intent_diversity |-> diversity,
              average_confidence |-> <<SumConfidence(history), Len(history)>>]

\* an engagement score without the response-speed term
CalculateEngagementScoreNoSpeed(context) ==
    IF context.message_count = 0 THEN 0
    ELSE LET minutes60 == Max2(60, context.session_duration)
             frequency == IF context.message_count * 60 >= 10 * minutes60 THEN 40
                          ELSE (context.message_count * 240) \div minutes60
             diversity == Cardinality(Range(Intents(context.conversation_history)))
         IN  frequency + Min2(5, diversity) * 6

\* _calculate_engagement_score, in hundredths (session_duration in seconds)
CalculateEngagementScore(context) ==
    IF context.message_count = 0 THEN 0
    ELSE LET minutes60 == Max2(60, context.session_duration)
             frequency == IF context.message_count * 60 >= 10 * minutes60 THEN 40
                          ELSE (context.message_count * 240) \div minutes60
             diversity == Cardinality(Range(Intents(context.conversation_history)))
         IN  frequency + 30 + Min2(5, diversity) * 6

\* _get_satisfaction_indicator
GetSatisfactionIndicator(sentiments) ==
    IF Len(sentiments) = 0 THEN "unknown"
    ELSE IF Count(sentiments, "positive") > Count(sentiments, "negative") * 2 THEN "satisfied"
    ELSE IF Count(sentiments, "negative") > Count(sentiments, "positive") THEN "dissatisfied"
    ELSE "neutral"

\* _generate_session_summary (primary_intent, overall_sentiment and primary_language
\* are left out: their ties are broken by the iteration order of a Python set)
GenerateSessionSummary(context) ==
    IF Len(context.conversation_history) = 0 THEN [status |-> "no_activity"]
    ELSE [message_count |-> Len(context.conversation_history),
          duration_minutes |-> context.session_duration \div 60,
          resolved_issues |-> Len(context.conversation_history) - Len(context.unresolved_issues),
          satisfaction_indicator |->
              GetSatisfactionIndicator(Sentiments(context.conversation_history))]

\* recommended actions that look at the sentiments of the whole history
GetRecommendedActionsWholeHistory(context) ==
    (IF Len(context.unresolved_issues) > 0 THEN <<"escalate_to_human">> ELSE <<>>)
    \o (IF Count(Sentiments(context.conversation_history), "negative") >= 2
        THEN <<"apply_recovery_strategy">> ELSE <<>>)
    \o (IF context.message_count > 15 THEN <<"summarize_and_close">> ELSE <<>>)
    \o (IF CalculateEngagementScore(context) < 30 THEN <<"increase_engagement">> ELSE <<>>)

\* _get_recommended_actions
GetRecommendedActions(context) ==
    (IF Len(context.unresolved_issues) > 0 THEN <<"escalate_to_human">> ELSE <<>>)
    \o (IF Count(LastN(Sentiments(context.conversation_history), 3), "negative") >= 2
        THEN <<"apply_recovery_strategy">> ELSE <<>>)
    \o (IF context.message_count > 15 THEN <<"summarize_and_close">> ELSE <<>>)
    \o (IF CalculateEngagementScore(context) < 30 THEN <<"increase_engagement">> ELSE <<>>)

\* an issue check that looks for a resolution in the whole history
IsIssueResolvedWholeHistory(context, issue_intent) ==
    \E i \in 1..Len(context.conversation_history) :
        LET msg == context.conversation_history[i]
        IN  /\ msg.intent \in {"compliment", "satisfaction", "goodbye"}
            /\ msg.sentiment = "positive"

\* _is_issue_resolved
IsIssueResolved(context, issue_intent) ==
    \E i \in 1..Len(LastN(context.conversation_history, 5)) :
        LET msg == LastN(context.conversation_history, 5)[i]
        IN  /\ msg.intent \in {"compliment", "satisfaction", "goodbye"}
            /\ msg.sentiment = "positive"

\* an insights update that clears the unresolved issues on a positive resolution
UpdateContextInsightsClearing(context, message) ==
    LET data == [keys |-> context.context_data.keys \cup InsightKeys,
                 recent_intents |-> LastN(Intents(context.conversation_history), 5),
                 recent_sentiments |-> LastN(Sentiments(context.conversation_history), 5),
                 conversation_flow |-> AnalyzeConversationFlow(context.conversation_history),
                 user_engagement |-> CalculateEngagementScore(context),
                 session_summary |-> GenerateSessionSummary(context),
                 recommended_actions |-> GetRecommendedActions(context)]
         issues == IF /\ message.intent \in {"compliment", "satisfaction", "goodbye"}
                      /\ message.sentiment = "positive"
                   THEN <<>>
                   ELSE IF /\ message.intent \in {"complaint", "support_request", "problem"}
                           /\ ~IsIssueResolved(context, message.intent)
                           /\ message.intent \notin Range(context.unresolved_issues)
                   THEN Append(context.unresolved_issues, message.intent)
                   ELSE context.unresolved_issues
    IN  [context EXCEPT !.context_data = data, !.unresolved_issues = issues]

\* _update_context_insights: the insights are computed first, from the context as
\* it stands, and the unresolved issues are updated after them
UpdateContextInsights(context, message) ==
    LET data == [keys |-> context.context_data.keys \cup InsightKeys,
                 recent_intents |-> LastN(Intents(context.conversation_history), 5),
                 recent_sentiments |-> LastN(Sentiments(context.conversation_history), 5),
                 conversation_flow |-> AnalyzeConversationFlow(context.conversation_history),
                 user_engagement |-> CalculateEngagementScore(context),
                 session_summary |-> GenerateSessionSummary(context),
                 recommended_actions |-> GetRecommendedActions(context)]
         issues == IF /\ message.intent \in {"complaint", "support_request", "problem"}
                      /\ ~IsIssueResolved(context, message.intent)
                      /\ message.intent \notin Range(context.unresolved_issues)
                   THEN Append(context.unresolved_issues, message.intent)
                   ELSE context.unresolved_issues
    IN  [context EXCEPT !.context_data = data, !.unresolved_issues = issues]

----------------------------------------------------------------------------
(* ConversationContextManager: the learning of _update_user_profile. *)

FormalIndicators ==
    {<<3588, 3640, 3603>>,                          \* คุณ
     <<3607, 3656, 3634, 3609>>,                    \* ท่าน
     <<3585, 3619, 3640, 3603, 3634>>,              \* กรุณา
     <<115, 105, 114>>,                             \* sir
     <<109, 97, 100, 97, 109>>,                     \* madam
     <<112, 108, 101, 97, 115, 101>>,               \* please
     <<116, 104, 97, 110, 107, 32, 121, 111, 117>>} \* thank you

InformalIndicators ==
    {<<53, 53, 53>>,                                \* 555
     <<3630, 3656, 3634>>,                          \* ฮ่า
     <<3648, 3630, 3657>>,                          \* เฮ้
     <<104, 105>>,                                  \* hi
     <<104, 101, 121>>,                             \* hey
     <<99, 111, 111, 108>>,                         \* cool
     <<97, 119, 101, 115, 111, 109, 101>>}          \* awesome

\* _detect_communication_style
DetectCommunicationStyle(text) ==
    IF Len(text) = 0 THEN "neutral"
    ELSE LET formal_count ==
                 Cardinality({w \in FormalIndicators : Contains(Lower(text), w)})
             informal_count ==
                 Cardinality({w \in InformalIndicators : Contains(Lower(text), w)})
         IN  IF formal_count > informal_count THEN "formal"
             ELSE IF informal_count > formal_count THEN "informal"
             ELSE "neutral"

\* 0.9 ** k, in units of 1/PowScale
RECURSIVE Pow9(_)
Pow9(k) == IF k = 0 THEN PowScale ELSE (Pow9(k - 1) * 9) \div 10

\* twice the score of a sentiment label: positive 1.0, negative 0.0, else 0.5
SentimentScore2(sentiment) ==
    IF sentiment = "positive" THEN 2 ELSE IF sentiment = "negative" THEN 0 ELSE 1

\* weight = confidence * (0.9 ** (len(sentiment_history) - i - 1))
SentimentWeight(sentiment_history, i) ==
    sentiment_history[i][2] * Pow9(Len(sentiment_history) - i)

RECURSIVE TotalScore2(_, _)
TotalScore2(sentiment_history, i) ==
    IF i = 0 THEN 0
    ELSE TotalScore2(sentiment_history, i - 1)
         + SentimentScore2(sentiment_history[i][1]) * SentimentWeight(sentiment_history, i)

RECURSIVE TotalWeight(_, _)
TotalWeight(sentiment_history, i) ==
    IF i = 0 THEN 0
    ELSE TotalWeight(sentiment_history, i - 1) + SentimentWeight(sentiment_history, i)

\* the quotient without the guard on total_weight
CalculateSatisfactionScoreUnguarded(sentiment_history) ==
    IF Len(sentiment_history) = 0 THEN <<1, 2>>
    ELSE <<TotalScore2(sentiment_history, Len(sentiment_history)),
           2 * TotalWeight(sentiment_history, Len(sentiment_history))>>

\* _calculate_satisfaction_score: total_score / total_weight as a quotient
CalculateSatisfactionScore(sentiment_history) ==
    IF Len(sentiment_history) = 0 THEN <<1, 2>>
    ELSE LET n == Len(sentiment_history)
         IN  IF TotalWeight(sentiment_history, n) > 0
             THEN <<TotalScore2(sentiment_history, n), 2 * TotalWeight(sentiment_history, n)>>
             ELSE <<1, 2>>

\* the cut keeping the oldest entries ([:20] for [-20:])
AppendSentimentKeepFirst(sentiment_history, message) ==
    LET appended == Append(sentiment_history,
                           <<message.sentiment, message.confidence, message.timestamp>>)
    IN  IF Len(appended) > SentimentHistoryCap
        THEN SubSeq(appended, 1, SentimentHistoryCap)
        ELSE appended

\* sentiment_history.append(...) and the cut to the most recent entries
AppendSentiment(sentiment_history, message) ==
    LET appended == Append(sentiment_history,
                           <<message.sentiment, message.confidence, message.timestamp>>)
    IN  IF Len(appended) > SentimentHistoryCap
        THEN LastN(appended, SentimentHistoryCap)
        ELSE appended

\* a counter update that starts a key that is already counted again at 1
IncrementOverwrite(d, k) ==
    IF k \in DOMAIN d THEN [d EXCEPT ![k] = 1] ELSE d @@ (k :> 1)

\* d[k] += 1 if k in d else d[k] = 1
Increment(d, k) ==
    IF k \in DOMAIN d THEN [d EXCEPT ![k] = @ + 1] ELSE d @@ (k :> 1)

\* the body of _update_user_profile on the profile get_user_profile handed it
LearnProfile(profile, message, t) ==
    LET history == AppendSentiment(profile.sentiment_history, message)
    IN  [profile EXCEPT
            !.interaction_count = @ + 1,
            !.last_seen = t,
            !.frequent_intents = Increment(@, message.intent),
            !.sentiment_history = history,
            !.preferred_language =
                IF message.language # "unknown" THEN message.language ELSE @,
            !.platform_usage = Increment(@, message.platform),
            !.communication_style = DetectCommunicationStyle(message.text),
            !.satisfaction_score = CalculateSatisfactionScore(history)]

\* get_user_profile on the cache `profiles`: the profile returned and the cache left.
\* A failing load is caught and answered with a new profile that is not cached.
GetUserProfileFn(profiles, t, user_id, fault) ==
    IF user_id \in DOMAIN profiles
    THEN LET profile == [profiles[user_id] EXCEPT !.last_seen = t]
         IN  [profile |-> profile, cached |-> TRUE,
              profiles |-> [profiles EXCEPT ![user_id] = profile]]
    ELSE IF fault = "load_profile"
    THEN [profile |-> CreateNewProfile(user_id, t), cached |-> FALSE, profiles |-> profiles]
    ELSE [profile |-> CreateNewProfile(user_id, t), cached |-> TRUE,
          profiles |-> profiles @@ (user_id :> CreateNewProfile(user_id, t))]

\* _update_user_profile: the cache it leaves (a failing save comes after the
\* profile object has been changed, and is caught)
UpdateUserProfileFn(profiles, t, user_id, message, fault) ==
    LET got == GetUserProfileFn(profiles, t, user_id, fault)
    IN  IF got.cached
        THEN [got.profiles EXCEPT ![user_id] = LearnProfile(got.profile, message, t)]
        ELSE got.profiles

----------------------------------------------------------------------------
(* ConversationContextManager: get_context and update_context as functions *)
(* of the manager's state M = [ac, up, arr, proc] (the cache, the profiles *)
(* and the two history variables) at time t. fault names the storage call  *)
(* that raises in this call, or "none".                                    *)

Faults == {"none", "load_context", "save_context", "save_message",
           "load_profile", "save_profile"}

Manager ==
    [ac |-> active_conversations, up |-> user_profiles,
     arr |-> arrivals, proc |-> processed]

EmptyManager == [ac |-> <<>>, up |-> <<>>, arr |-> <<>>, proc |-> <<>>]

\* del d[k] ; d[k] = v
Without(f, k) == [x \in DOMAIN f \ {k} |-> f[x]]
With(f, k, v) == [x \in DOMAIN f \cup {k} |-> IF x = k THEN v ELSE f[x]]

\* get_context answering a failing load with the expired context it has just
\* dropped from the cache, when there is one, instead of a new context
GetContextStaleFn(M, t, user_id, session_id, fault) ==
    LET sid == SessionOf(user_id, session_id, t)
        context_key == ContextKey(user_id, sid)
    IN  IF context_key \in DOMAIN M.ac /\ IsContextValid(M.ac[context_key], t)
        THEN [m |-> M, context |-> M.ac[context_key], key |-> context_key, cached |-> TRUE]
        ELSE IF fault = "load_context"
        THEN [m |-> [M EXCEPT !.ac = Without(@, context_key),
                              !.arr = Without(@, context_key)],
              context |-> IF context_key \in DOMAIN M.ac THEN M.ac[context_key]
                          ELSE CreateNewContext(user_id, sid, t),
              key |-> context_key, cached |-> FALSE]
        ELSE [m |-> [M EXCEPT !.ac = With(@, context_key, CreateNewContext(user_id, sid, t)),
                              !.arr = With(@, context_key, <<>>)],
              context |-> CreateNewContext(user_id, sid, t),
              key |-> context_key, cached |-> TRUE]

\* a get_context that refreshes last_updated of the valid cached context it returns
GetContextTouchFn(M, t, user_id, session_id, fault) ==
    LET sid == SessionOf(user_id, session_id, t)
        context_key == ContextKey(user_id, sid)
    IN  IF context_key \in DOMAIN M.ac /\ IsContextValid(M.ac[context_key], t)
        THEN [m |-> [M EXCEPT !.ac[context_key].last_updated = t],
              context |-> [M.ac[context_key] EXCEPT !.last_updated = t],
              key |-> context_key, cached |-> TRUE]
        ELSE IF fault = "load_context"
        THEN [m |-> [M EXCEPT !.ac = Without(@, context_key),
                              !.arr = Without(@, context_key)],
              context |-> FallbackContext(user_id, sid, t),
              key |-> context_key, cached |-> FALSE]
        ELSE [m |-> [M EXCEPT !.ac = With(@, context_key, CreateNewContext(user_id, sid, t)),
                              !.arr = With(@, context_key, <<>>)],
              context |-> CreateNewContext(user_id, sid, t),
              key |-> context_key, cached |-> TRUE]

\* get_context: [m |-> the manager after it, context |-> the context returned,
\* key |-> its cache key, cached |-> whether the context returned is the cached object]
GetContextFn(M, t, user_id, session_id, fault) ==
    LET sid == SessionOf(user_id, session_id, t)
        context_key == ContextKey(user_id, sid)
    IN  IF context_key \in DOMAIN M.ac /\ IsContextValid(M.ac[context_key], t)
        THEN [m |-> M, context |-> M.ac[context_key], key |-> context_key, cached |-> TRUE]
        ELSE IF fault = "load_context"
        THEN [m |-> [M EXCEPT !.ac = Without(@, context_key),
                              !.arr = Without(@, context_key)],
              context |-> FallbackContext(user_id, sid, t),
              key |-> context_key, cached |-> FALSE]
        ELSE [m |-> [M EXCEPT !.ac = With(@, context_key, CreateNewContext(user_id, sid, t)),
                              !.arr = With(@, context_key, <<>>)],
              context |-> CreateNewContext(user_id, sid, t),
              key |-> context_key, cached |-> TRUE]

\* a recording whose message_count is the length of the history
RecordMessageCappedCount(context, message, t) ==
    [context EXCEPT
        !.conversation_history = DequeAppend(@, message, MaxHistoryLength),
        !.current_intent = message.intent,
        !.current_sentiment = message.sentiment,
        !.message_count = Len(DequeAppend(context.conversation_history, message,
                                          MaxHistoryLength)),
        !.last_updated = t]

\* lines 322-327 of update_context: the message recorded in the context object
RecordMessage(context, message, t) ==
    [context EXCEPT
        !.conversation_history = DequeAppend(@, message, MaxHistoryLength),
        !.current_intent = message.intent,
        !.current_sentiment = message.sentiment,
        !.message_count = @ + 1,
        !.last_updated = t]

\* context.context_data.get('platform', 'unknown')
PlatformOf(context) ==
    IF "platform" \in context.context_data.keys
    THEN context.context_data.platform
    ELSE "unknown"

\* update_context: [m |-> the manager after it, context |-> the context it updated,
\* data |-> the dict returned, raised |-> whether the except branch returned {}]
UpdateContextFn(M, t, user_id, intent_result, sentiment_result, entities, message_text, session_id, fault) ==
    LET got == GetContextFn(M, t, user_id, session_id, fault)
        message == NewMessage(user_id, intent_result, sentiment_result, entities,
                              message_text, PlatformOf(got.context), t)
        updated == UpdateContextInsights(RecordMessage(got.context, message, t), message)
        raised == fault \in {"save_context", "save_message"}
    IN  [m |-> [got.m EXCEPT
                   !.ac = IF got.cached THEN With(@, got.key, updated) ELSE @,
                   !.up = UpdateUserProfileFn(@, t, user_id, message, fault),
                   !.arr = IF got.cached THEN With(@, got.key, Append(@[got.key], message))
                           ELSE @,
                   !.proc = IF user_id \in DOMAIN @
                            THEN With(@, user_id, Append(@[user_id], message))
                            ELSE With(@, user_id, <<message>>)],
         context |-> updated,
         data |-> IF raised THEN EmptyContextData ELSE updated.context_data,
         raised |-> raised]

----------------------------------------------------------------------------
(* The calls of the manager as actions. *)

Install(M) ==
    /\ active_conversations' = M.ac
    /\ user_profiles' = M.up
    /\ arrivals' = M.arr
    /\ processed' = M.proc

RECURSIVE SumLen(_, _)
SumLen(f, S) ==
    IF S = {} THEN 0
    ELSE LET x == CHOOSE y \in S : TRUE IN Len(f[x]) + SumLen(f, S \ {x})

\* the messages update_context has processed for user u
ProcessedFor(u) == IF u \in DOMAIN processed THEN processed[u] ELSE <<>>

\* the number of update_context calls made so far
TotalProcessed == SumLen(processed, DOMAIN processed)

get_context(user_id, session_id, fault) ==
    LET got == GetContextFn(Manager, now, user_id, session_id, fault)
    IN  /\ Install(got.m)
        /\ UNCHANGED <<now, call_vars>>

update_context(user_id, intent_result, sentiment_result, entities, message_text, session_id, fault) ==
    LET done == UpdateContextFn(Manager, now, user_id, intent_result, sentiment_result,
                                entities, message_text, session_id, fault)
    IN  /\ Install(done.m)
        /\ UNCHANGED <<now, call_vars>>

get_user_profile(user_id, fault) ==
    /\ user_profiles' = GetUserProfileFn(user_profiles, now, user_id, fault).profiles
    /\ UNCHANGED <<active_conversations, arrivals, processed, now, call_vars>>

\* time passes between two calls
Tick ==
    /\ now < MaxTime
    /\ now' = now + 1
    /\ UNCHANGED <<active_conversations, user_profiles, arrivals, processed, call_vars>>

----------------------------------------------------------------------------
(* Spec: the manager called by several users on several sessions.          *)
(* "a" with session "b:c" and "a:b" with session "c" are two users whose   *)
(* context keys are the same string.                                       *)

Users == {"a", "a:b"}
SessionIds == {"c", "b:c"}
SpecIntents == {"greeting", "complaint"}

NoText == <<>>
NoEntities == <<>>

\* no coroutine in flight, process_message not called yet
NoCalls ==
    /\ tasks = <<>>
    /\ request = [processor |-> "none"]
    /\ result = [status |-> "none"]

Init ==
    /\ active_conversations = <<>>
    /\ user_profiles = <<>>
    /\ now = 0
    /\ arrivals = <<>>
    /\ processed = <<>>
    /\ NoCalls

Next ==
    \/ \E u \in Users, s \in SessionIds : get_context(u, s, "none")
    \/ \E u \in Users, s \in SessionIds, i \in SpecIntents :
          /\ TotalProcessed < MaxCalls
          /\ update_context(u, IntentResult(i, 5), SentimentResult("neutral", 5),
                            NoEntities, NoText, s, "none")
    \/ \E u \in Users : get_user_profile(u, "none")
    \/ Tick

Spec == Init /\ [][Next]_vars

----------------------------------------------------------------------------
(* SpecSession: one user feeding one explicit session, the clock running.  *)

SessionUser == "a"
SessionId == "c"
SessionKey == ContextKey(SessionUser, SessionId)

\* the calls of a run: the history length and five more
SessionCalls == MaxHistoryLength + 5

NextSession ==
    \/ get_context(SessionUser, SessionId, "none")
    \/ \E i \in SpecIntents :
          /\ TotalProcessed < SessionCalls
          /\ update_context(SessionUser, IntentResult(i, 5), SentimentResult("neutral", 5),
                            NoEntities, NoText, SessionId, "none")
    \/ Tick

SpecSession == Init /\ [][NextSession]_vars

----------------------------------------------------------------------------
(* SpecStorage: one user on one session, with or without a session id, any *)
(* storage call of a handler failing, the clock running.                   *)

StorageCalls == 3

NextStorage ==
    \/ \E s \in {SessionId, NoSession}, fault \in Faults :
          get_context(SessionUser, s, fault)
    \/ \E i \in SpecIntents, fault \in Faults :
          /\ TotalProcessed < StorageCalls
          /\ update_context(SessionUser, IntentResult(i, 5), SentimentResult("negative", 5),
                            NoEntities, NoText, SessionId, fault)
    \/ Tick

SpecStorage == Init /\ [][NextStorage]_vars

----------------------------------------------------------------------------
(* SpecIssues: one user on one session, the messages being issues,          *)
(* resolutions and others, more of them than the resolution window holds.   *)

IssueCalls == MaxHistoryLength + 1

\* <<intent, sentiment>> of a message
IssueMessages ==
    {<<"complaint", "negative">>, <<"problem", "negative">>,
     <<"support_request", "positive">>, <<"compliment", "positive">>,
     <<"compliment", "negative">>}

NextIssues ==
    \/ get_context(SessionUser, SessionId, "none")
    \/ \E m \in IssueMessages :
          /\ TotalProcessed < IssueCalls
          /\ update_context(SessionUser, IntentResult(m[1], 5), SentimentResult(m[2], 5),
                            NoEntities, NoText, SessionId, "none")

SpecIssues == Init /\ [][NextIssues]_vars

----------------------------------------------------------------------------
(* SpecRecovery: one user on one session, the messages' sentiments varying, *)
(* the clock running.                                                       *)

RecoveryCalls == MaxHistoryLength + 1
RecoverySentiments == {"negative", "positive"}

NextRecovery ==
    \/ get_context(SessionUser, SessionId, "none")
    \/ \E s \in RecoverySentiments :
          /\ TotalProcessed < RecoveryCalls
          /\ update_context(SessionUser, IntentResult("greeting", 5), SentimentResult(s, 5),
                            NoEntities, NoText, SessionId, "none")
    \/ Tick

SpecRecovery == Init /\ [][NextRecovery]_vars

----------------------------------------------------------------------------
(* SpecProfile: one user's profile learning from sentiment and confidence  *)
(* streams. A run starts from a new manager, or from the manager as        *)
(* WarmMessages earlier update_context calls of the user have left it.     *)

ProfileSentiments == {"positive", "neutral", "negative"}
ProfileConfidences == {-5, 0, 10}

WarmSentiment(n) ==
    IF n % 3 = 0 THEN "positive" ELSE IF n % 3 = 1 THEN "neutral" ELSE "negative"
WarmConfidence(n) == 5 * (n % 3)

RECURSIVE Warmed(_)
Warmed(n) ==
    IF n = 0 THEN EmptyManager
    ELSE UpdateContextFn(Warmed(n - 1), 0, SessionUser,
                         IntentResult("greeting", WarmConfidence(n)),
                         SentimentResult(WarmSentiment(n), WarmConfidence(n)),
                         NoEntities, NoText, SessionId, "none").m

InitProfile ==
    \E n \in {0, WarmMessages} :
        /\ active_conversations = Warmed(n).ac
        /\ user_profiles = Warmed(n).up
        /\ arrivals = Warmed(n).arr
        /\ processed = Warmed(n).proc
        /\ now = 0
        /\ NoCalls

NextProfile ==
    \/ \E s \in ProfileSentiments, c \in ProfileConfidences :
          /\ \/ TotalProcessed < MaxProfileCalls
             \/ /\ TotalProcessed >= WarmMessages
                /\ TotalProcessed < WarmMessages + MaxProfileCalls
          /\ update_context(SessionUser, IntentResult("greeting", c), SentimentResult(s, c),
                            NoEntities, NoText, SessionId, "none")
    \/ get_user_profile(SessionUser, "none")
    \/ Tick

SpecProfile == InitProfile /\ [][NextProfile]_vars

----------------------------------------------------------------------------
(* SpecConc: two update_context coroutines on one (user_id, session_id),   *)
(* scheduled by the event loop. A coroutine runs uninterrupted from one    *)
(* await to the next and may be suspended at each await of get_context and *)
(* update_context; a step of a task is the code between two awaits. The    *)
(* tasks run within one clock reading, so no context expires under them.   *)
(*                                                                         *)
(* A frame holds a reference to a ConversationContext: while attached, it  *)
(* is the object cached under context_key; when another task replaces or   *)
(* deletes that cache entry the frame keeps the object, now reachable from *)
(* the frame only (with two tasks, never from both frames). The profile    *)
(* learning of a message is taken in one step.                             *)

Tasks == {1, 2}

\* the positions of a coroutine: the await it is suspended at
TaskPositions ==
    {"get_context", "load_context", "create_context", "record", "insights",
     "profile", "save_context", "save_message", "done"}

\* the frame of update_context(user_id, intent_result, sentiment_result, [], None, session_id)
NewTask(user_id, session_id, intent_result, sentiment_result) ==
    [pc |-> "get_context", user_id |-> user_id, session_id |-> session_id,
     intent_result |-> intent_result, sentiment_result |-> sentiment_result,
     context_key |-> "", attached |-> FALSE, context |-> <<>>, message |-> <<>>]

\* the object the frame's `context` refers to
TaskContext(t) ==
    IF tasks[t].attached THEN active_conversations[tasks[t].context_key]
    ELSE tasks[t].context

\* the frames after task self has replaced or deleted the cache entry of key:
\* the other frames referring to the object that was cached keep that object
Detach(key, self) ==
    [u \in DOMAIN tasks |->
        IF u # self /\ tasks[u].attached /\ tasks[u].context_key = key
        THEN [tasks[u] EXCEPT !.attached = FALSE, !.context = active_conversations[key]]
        ELSE tasks[u]]

\* get_context, lines 250-267: up to the cache hit, or to the await of the load
task_get_context(t) ==
    /\ tasks[t].pc = "get_context"
    /\ LET sid == SessionOf(tasks[t].user_id, tasks[t].session_id, now)
           key == ContextKey(tasks[t].user_id, sid)
       IN  IF key \in DOMAIN active_conversations /\ IsContextValid(active_conversations[key], now)
           THEN /\ tasks' = [tasks EXCEPT ![t].pc = "record", ![t].session_id = sid,
                                          ![t].context_key = key, ![t].attached = TRUE]
                /\ UNCHANGED <<active_conversations, arrivals>>
           ELSE /\ tasks' = [Detach(key, t) EXCEPT ![t].pc = "load_context",
                                                   ![t].session_id = sid,
                                                   ![t].context_key = key]
                /\ active_conversations' = Without(active_conversations, key)
                /\ arrivals' = Without(arrivals, key)
    /\ UNCHANGED <<user_profiles, now, processed, request, result>>

\* await self._load_context_from_db: returns None
task_load_context(t) ==
    /\ tasks[t].pc = "load_context"
    /\ tasks' = [tasks EXCEPT ![t].pc = "create_context"]
    /\ UNCHANGED <<mgr_vars, request, result>>

\* await self._create_new_context, then lines 272-274: the new context is cached
task_create_context(t) ==
    /\ tasks[t].pc = "create_context"
    /\ LET key == tasks[t].context_key
           context == CreateNewContext(tasks[t].user_id, tasks[t].session_id, now)
       IN  /\ tasks' = [Detach(key, t) EXCEPT ![t].pc = "record", ![t].attached = TRUE]
           /\ active_conversations' = With(active_conversations, key, context)
           /\ arrivals' = With(arrivals, key, <<>>)
    /\ UNCHANGED <<user_profiles, now, processed, request, result>>

\* the object of task t's frame becomes `context`
StoreTaskContext(t, context, pc, message) ==
    IF tasks[t].attached
    THEN /\ active_conversations' = With(active_conversations, tasks[t].context_key, context)
         /\ tasks' = [tasks EXCEPT ![t].pc = pc, ![t].message = message]
    ELSE /\ tasks' = [tasks EXCEPT ![t].pc = pc, ![t].message = message,
                                   ![t].context = context]
         /\ UNCHANGED active_conversations

\* update_context, lines 309-327: the message is built and recorded
task_record(t) ==
    /\ tasks[t].pc = "record"
    /\ LET context == TaskContext(t)
           user_id == tasks[t].user_id
           message == NewMessage(user_id, tasks[t].intent_result, tasks[t].sentiment_result,
                                 <<>>, <<>>, PlatformOf(context), now)
       IN  /\ StoreTaskContext(t, RecordMessage(context, message, now), "insights", message)
           /\ arrivals' = IF tasks[t].attached
                          THEN With(arrivals, tasks[t].context_key,
                                    Append(arrivals[tasks[t].context_key], message))
                          ELSE arrivals
           /\ processed' = IF user_id \in DOMAIN processed
                           THEN With(processed, user_id, Append(processed[user_id], message))
                           ELSE With(processed, user_id, <<message>>)
    /\ UNCHANGED <<user_profiles, now, request, result>>

\* await self._update_context_insights(context, message)
task_insights(t) ==
    /\ tasks[t].pc = "insights"
    /\ StoreTaskContext(t, UpdateContextInsights(TaskContext(t), tasks[t].message),
                        "profile", tasks[t].message)
    /\ UNCHANGED <<user_profiles, now, arrivals, processed, request, result>>

\* await self._update_user_profile(user_id, message)
task_profile(t) ==
    /\ tasks[t].pc = "profile"
    /\ user_profiles' = UpdateUserProfileFn(user_profiles, now, tasks[t].user_id,
                                            tasks[t].message, "none")
    /\ tasks' = [tasks EXCEPT ![t].pc = "save_context"]
    /\ UNCHANGED <<active_conversations, now, arrivals, processed, request, result>>

\* await self._save_context_to_db(context)
task_save_context(t) ==
    /\ tasks[t].pc = "save_context"
    /\ tasks' = [tasks EXCEPT ![t].pc = "save_message"]
    /\ UNCHANGED <<mgr_vars, request, result>>

\* await self._save_message_to_db(message), and the return of context.context_data
task_save_message(t) ==
    /\ tasks[t].pc = "save_message"
    /\ tasks' = [tasks EXCEPT ![t].pc = "done"]
    /\ UNCHANGED <<mgr_vars, request, result>>

\* the intent of a task's message: the two messages differ
TaskIntent(t) == IF t = 1 THEN "greeting" ELSE "complaint"

\* the session is new, or holds the context one earlier message has left
InitConc ==
    \E n \in {0, 1}, s \in [Tasks -> ProfileSentiments] :
        /\ active_conversations = Warmed(n).ac
        /\ user_profiles = Warmed(n).up
        /\ arrivals = Warmed(n).arr
        /\ processed = Warmed(n).proc
        /\ now = 0
        /\ tasks = [t \in Tasks |->
                       NewTask(SessionUser, SessionId, IntentResult(TaskIntent(t), 5),
                               SentimentResult(s[t], 5))]
        /\ request = [processor |-> "none"]
        /\ result = [status |-> "none"]

NextConc ==
    \E t \in Tasks :
        \/ task_get_context(t)
        \/ task_load_context(t)
        \/ task_create_context(t)
        \/ task_record(t)
        \/ task_insights(t)
        \/ task_profile(t)
        \/ task_save_context(t)
        \/ task_save_message(t)

SpecConc == InitConc /\ [][NextConc]_vars

----------------------------------------------------------------------------
(* SpecHang: the coroutines of SpecConc with the clock running while they   *)
(* are suspended. The storage awaits (_load_context_from_db,                *)
(* _save_context_to_db, _save_message_to_db) are completed by the store: a  *)
(* store that does not answer leaves the coroutine at its await, and no     *)
(* step of the code resumes it (there is no asyncio.wait_for, no timer and  *)
(* no use of timeout_seconds in the source). The calls start at time 0.     *)

\* the awaits that the context store completes
StorageAwaits == {"load_context", "save_context", "save_message"}

NextHang ==
    \/ \E t \in Tasks :
          \/ task_get_context(t)
          \/ task_load_context(t)
          \/ task_create_context(t)
          \/ task_record(t)
          \/ task_insights(t)
          \/ task_profile(t)
          \/ task_save_context(t)
          \/ task_save_message(t)
    \/ Tick

SpecHang == InitConc /\ [][NextHang]_vars

----------------------------------------------------------------------------
(* EnterpriseAIProcessor.process_message (core/ai_processor.py). What the  *)
(* models answer for a text is not computed here: the language, the intent *)
(* and sentiment results, the entities and the generated text are inputs   *)
(* of the call. fault names the step that fails in this call, or "none";   *)
(* dt is the time that passes between the get_context and the              *)
(* update_context of the call.                                             *)

\* str.strip()
IsSpace(c) ==
    c \in {9, 10, 11, 12, 13, 28, 29, 30, 31, 32, 133, 160, 5760, 8232, 8233, 8239, 8287}
            \cup 8192..8202

RECURSIVE Strip(_)
Strip(text) ==
    IF Len(text) = 0 THEN text
    ELSE IF IsSpace(text[1]) THEN Strip(Tail(text))
    ELSE IF IsSpace(text[Len(text)]) THEN Strip(SubSeq(text, 1, Len(text) - 1))
    ELSE text

\* Message(user_id, text, session_id=...) of type TEXT
Message(user_id, session_id, text) ==
    [user_id |-> user_id, session_id |-> session_id, text |-> text]

\* Message.__post_init__ raises for a missing user_id and for a text message
\* without text (`not self.text`: the empty string; whitespace is text)
MessageIsValid(message) == message.user_id # "" /\ Len(message.text) > 0

\* the steps of the pipeline that can fail
EnterpriseFaults ==
    Faults \cup {"detect_language", "classify_intent", "analyze_sentiment",
                 "extract_entities", "generate_response", "update_performance_stats"}

\* the steps whose exception reaches the except branch of process_message: the
\* language detector when its fallback fails too, and the steps of process_message
\* itself; classify_intent, analyze_sentiment, extract_entities, generate_response,
\* get_context and update_context catch their own
EnterpriseRaises(fault) == fault \in {"detect_language", "update_performance_stats"}

\* what process_message hands back: a result returned, or an exception raised
Returned(processing_result) == [status |-> "returned", processing_result |-> processing_result]
Raised == [status |-> "raised", processing_result |-> <<>>]

\* the apology of _create_error_response (Thai only)
EnterpriseApology ==
    <<3586, 3629, 3629, 3616, 3633, 3618, 3588, 3619, 3633, 3610, 32, 3648,
      3585, 3636, 3604, 3586, 3657, 3629, 3612, 3636, 3604, 3614, 3621, 3634,
      3604, 3651, 3609, 3619, 3632, 3610, 3610, 32, 3585, 3619, 3640, 3603,
      3634, 3621, 3629, 3591, 3651, 3627, 3617, 3656, 3629, 3637, 3585, 3588,
      3619, 3633, 3657, 3591>>

\* _get_fallback_response
FallbackResponseThai ==
    <<3586, 3629, 3629, 3616, 3633, 3618, 3588, 3619, 3633, 3610, 32, 3612,
      3617, 3652, 3617, 3656, 3648, 3586, 3657, 3634, 3651, 3592, 3588, 3635,
      3606, 3634, 3617, 3586, 3629, 3591, 3588, 3640, 3603, 32, 3585, 3619,
      3640, 3603, 3634, 3629, 3608, 3636, 3610, 3634, 3618, 3648, 3614, 3636,
      3656, 3617, 3648, 3605, 3636, 3617, 3627, 3619, 3639, 3629, 3605, 3636,
      3604, 3605, 3656, 3629, 3648, 3592, 3657, 3634, 3627, 3609, 3657, 3634,
      3607, 3637, 3656, 3586, 3629, 3591, 3648, 3619, 3634>>

FallbackResponseEnglish ==
    <<73, 32, 97, 112, 111, 108, 111, 103, 105, 122, 101, 44, 32, 98, 117,
      116, 32, 73, 32, 100, 105, 100, 110, 39, 116, 32, 117, 110, 100, 101,
      114, 115, 116, 97, 110, 100, 32, 121, 111, 117, 114, 32, 113, 117, 101,
      115, 116, 105, 111, 110, 46, 32, 67, 111, 117, 108, 100, 32, 121, 111,
      117, 32, 112, 108, 101, 97, 115, 101, 32, 99, 108, 97, 114, 105, 102,
      121, 32, 111, 114, 32, 99, 111, 110, 116, 97, 99, 116, 32, 111, 117,
      114, 32, 115, 117, 112, 112, 111, 114, 116, 32, 116, 101, 97, 109, 63>>

GetFallbackResponse(language) ==
    IF language = "th" THEN FallbackResponseThai ELSE FallbackResponseEnglish

\* _post_process_response on a text of at most 500 characters that does not quote
\* the conversation; context_data has no 'user_profile', so no name is added
PostProcessResponse(response_text) == Strip(response_text)

\* _create_error_response
CreateErrorResponse(message) ==
    [intent |-> "error", confidence |-> 0, sentiment |-> "neutral", sentiment_score |-> 5,
     language |-> "unknown", entities |-> <<>>, suggested_response |-> EnterpriseApology,
     context_updates |-> EmptyContextData]

\* the try block of process_message, steps 1 to 10
ProcessMessageTry(M, t, message, language, intent_result, sentiment_result, entities, response_text, dt, fault) ==
    IF fault = "detect_language"
    THEN [m |-> M, now |-> t, result |-> Raised]
    ELSE LET ir == IF fault = "classify_intent" THEN IntentResult("unknown", 0)
                   ELSE intent_result
             sr == IF fault = "analyze_sentiment" THEN SentimentResult("neutral", 0)
                   ELSE sentiment_result
             \* SentimentResult(score=score, confidence=score); score=0.5 when it failed
             score == IF fault = "analyze_sentiment" THEN 5 ELSE sentiment_result.confidence
             en == IF fault = "extract_entities" THEN <<>> ELSE entities
             \* get_context(message.user_id), update_context(message.user_id, ...):
             \* neither is given message.session_id or message.text
             got == GetContextFn(M, t, message.user_id, NoSession, fault)
             upd == UpdateContextFn(got.m, t + dt, message.user_id, ir, sr, en,
                                    <<>>, NoSession, fault)
             response == IF fault = "generate_response" THEN GetFallbackResponse(language)
                         ELSE PostProcessResponse(response_text)
         IN  [m |-> upd.m, now |-> t + dt,
              result |->
                  IF fault = "update_performance_stats" THEN Raised
                  ELSE Returned([intent |-> ir.intent, confidence |-> ir.confidence,
                                 sentiment |-> sr.sentiment, sentiment_score |-> score,
                                 language |-> language, entities |-> en,
                                 suggested_response |-> response,
                                 context_updates |-> upd.data])]

\* process_message without its except branch: the exception leaves the call
ProcessMessageUnguardedFn(M, t, message, language, intent_result, sentiment_result, entities, response_text, dt, fault) ==
    ProcessMessageTry(M, t, message, language, intent_result, sentiment_result,
                      entities, response_text, dt, fault)

\* process_message: [m |-> the manager after it, now |-> the time it returns at,
\* result |-> what it hands back]; the except branch answers with the error response
ProcessMessageFn(M, t, message, language, intent_result, sentiment_result, entities, response_text, dt, fault) ==
    LET tried == ProcessMessageTry(M, t, message, language, intent_result,
                                   sentiment_result, entities, response_text, dt, fault)
    IN  IF tried.result.status = "raised"
        THEN [tried EXCEPT !.result = Returned(CreateErrorResponse(message))]
        ELSE tried

process_message(message, language, intent_result, sentiment_result, entities, response_text, dt, fault) ==
    LET done == ProcessMessageFn(Manager, now, message, language, intent_result,
                                 sentiment_result, entities, response_text, dt, fault)
    IN  /\ MessageIsValid(message)
        /\ now + dt <= MaxTime
        /\ Install(done.m)
        /\ now' = done.now
        /\ request' = [processor |-> "enterprise", message |-> message, fault |-> fault]
        /\ result' = done.result
        /\ UNCHANGED tasks

----------------------------------------------------------------------------
(* SpecEnterprise: one user sending the messages of one session through    *)
(* EnterpriseAIProcessor, no step failing, the clock running.              *)

Languages == {"th", "en", "unknown"}
EnterpriseTexts == {<<>>, <<32>>, <<104, 105>>}
ResponseTexts == {<<>>, <<32, 79, 75, 32>>}

NextEnterprise ==
    \/ \E text \in EnterpriseTexts, language \in Languages, i \in SpecIntents,
          s \in ProfileSentiments, response_text \in ResponseTexts, dt \in {0, 1} :
          /\ TotalProcessed < MaxCalls
          /\ process_message(Message(SessionUser, SessionId, text), language,
                             IntentResult(i, 5), SentimentResult(s, 5), NoEntities,
                             response_text, dt, "none")
    \/ Tick

SpecEnterprise == Init /\ [][NextEnterprise]_vars

----------------------------------------------------------------------------
(* SimpleAIProcessor (simple_processor.py). The keyword tables and the     *)
(* response templates are those of the source, as code points. What        *)
(* TextBlob answers is an input of the call (polarity, in tenths), and so  *)
(* is the template random.choice picks.                                    *)

\* the keys of the keyword tables, in the order the dicts are written
IntentOrder ==
    <<"greeting", "product_inquiry", "support_request", "complaint", "compliment", "order_status", "goodbye">>

\* _load_thai_keywords
ThaiKeywords ==
    [greeting |->
        <<<<3626, 3623, 3633, 3626, 3604, 3637>>,
          <<3627, 3623, 3633, 3604, 3604, 3637>>,
          <<3604, 3637, 3588, 3619, 3633, 3610>>,
          <<3604, 3637, 3588, 3656, 3632>>,
          <<3618, 3636, 3609, 3604, 3637>>,
          <<3648, 3630, 3657>>,
          <<3630, 3633, 3621, 3650, 3627, 3621>>>>,
    product_inquiry |->
        <<<<3626, 3636, 3609, 3588, 3657, 3634>>,
          <<3612, 3621, 3636, 3605, 3616, 3633, 3603, 3601, 3660>>,
          <<3619, 3634, 3588, 3634>>,
          <<3588, 3656, 3634, 3651, 3594, 3657, 3592, 3656, 3634, 3618>>,
          <<3648, 3607, 3656, 3634, 3652, 3619>>,
          <<3617, 3637>>,
          <<3592, 3635, 3627, 3609, 3656, 3634, 3618>>,
          <<3586, 3634, 3618>>>>,
    support_request |->
        <<<<3594, 3656, 3623, 3618>>,
          <<3594, 3656, 3623, 3618, 3648, 3627, 3621, 3639, 3629>>,
          <<3649, 3585, 3657, 3652, 3586>>,
          <<3611, 3633, 3597, 3627, 3634>>,
          <<3652, 3617, 3656, 3652, 3604, 3657>>,
          <<3648, 3626, 3637, 3618>>,
          <<3591, 3634, 3609>>,
          <<3607, 3635>>>>,
    complaint |->
        <<<<3610, 3656, 3609>>,
          <<3619, 3657, 3629, 3591, 3648, 3619, 3637, 3618, 3609>>,
          <<3649, 3618, 3656>>,
          <<3652, 3617, 3656, 3604, 3637>>,
          <<3649, 3618, 3656, 3617, 3634, 3585>>,
          <<3650, 3591, 3656>>,
          <<3649, 3611, 3658, 3604>>,
          <<3586, 3618, 3632>>>>,
    compliment |->
        <<<<3604, 3637>>,
          <<3648, 3618, 3637, 3656, 3618, 3617>>,
          <<3626, 3640, 3604, 3618, 3629, 3604>>,
          <<3618, 3629, 3604, 3648, 3618, 3637, 3656, 3618, 3617>>,
          <<3648, 3592, 3659, 3591>>,
          <<3648, 3621, 3636, 3624>>,
          <<3611, 3619, 3632, 3607, 3633, 3610, 3651, 3592>>,
          <<3594, 3629, 3610>>>>,
    order_status |->
        <<<<3626, 3606, 3634, 3609, 3632>>,
          <<3629, 3629, 3648, 3604, 3629, 3619, 3660>>,
          <<3588, 3635, 3626, 3633, 3656, 3591, 3595, 3639, 3657, 3629>>,
          <<3592, 3633, 3604, 3626, 3656, 3591>>,
          <<3626, 3656, 3591, 3586, 3629, 3591>>,
          <<3652, 3604, 3657, 3619, 3633, 3610>>,
          <<3648, 3617, 3639, 3656, 3629, 3652, 3619>>>>,
    goodbye |->
        <<<<3621, 3634, 3585, 3656, 3629, 3609>>,
          <<3610, 3634, 3618>>,
          <<3649, 3621, 3657, 3623, 3648, 3592, 3629, 3585, 3633, 3609>>,
          <<3652, 3611, 3585, 3656, 3629, 3609>>,
          <<3586, 3629, 3610, 3588, 3640, 3603>>,
          <<3592, 3610>>,
          <<3648, 3626, 3619, 3655, 3592>>>>]

\* _load_english_keywords
EnglishKeywords ==
    [greeting |->
        <<<<104, 101, 108, 108, 111>>,
          <<104, 105>>,
          <<104, 101, 121>>,
          <<103, 111, 111, 100, 32, 109, 111, 114, 110, 105, 110, 103>>,
          <<103, 111, 111, 100, 32, 97, 102, 116, 101, 114, 110, 111, 111, 110>>,
          <<103, 114, 101, 101, 116, 105, 110, 103, 115>>>>,
    product_inquiry |->
        <<<<112, 114, 111, 100, 117, 99, 116>>,
          <<112, 114, 105, 99, 101>>,
          <<99, 111, 115, 116>>,
          <<98, 117, 121>>,
          <<112, 117, 114, 99, 104, 97, 115, 101>>,
          <<97, 118, 97, 105, 108, 97, 98, 108, 101>>,
          <<115, 101, 108, 108>>>>,
    support_request |->
        <<<<104, 101, 108, 112>>,
          <<115, 117, 112, 112, 111, 114, 116>>,
          <<97, 115, 115, 105, 115, 116>>,
          <<112, 114, 111, 98, 108, 101, 109>>,
          <<105, 115, 115, 117, 101>>,
          <<102, 105, 120>>,
          <<98, 114, 111, 107, 101, 110>>>>,
    complaint |->
        <<<<99, 111, 109, 112, 108, 97, 105, 110>>,
          <<98, 97, 100>>,
          <<116, 101, 114, 114, 105, 98, 108, 101>>,
          <<97, 119, 102, 117, 108>>,
          <<119, 111, 114, 115, 116>>,
          <<104, 97, 116, 101>>,
          <<97, 110, 103, 114, 121>>>>,
    compliment |->
        <<<<103, 111, 111, 100>>,
          <<103, 114, 101, 97, 116>>,
          <<101, 120, 99, 101, 108, 108, 101, 110, 116>>,
          <<97, 109, 97, 122, 105, 110, 103>>,
          <<119, 111, 110, 100, 101, 114, 102, 117, 108>>,
          <<112, 101, 114, 102, 101, 99, 116>>,
          <<108, 111, 118, 101>>>>,
    order_status |->
        <<<<111, 114, 100, 101, 114>>,
          <<115, 116, 97, 116, 117, 115>>,
          <<100, 101, 108, 105, 118, 101, 114, 121>>,
          <<115, 104, 105, 112, 112, 101, 100>>,
          <<116, 114, 97, 99, 107>>,
          <<119, 104, 101, 110>>,
          <<97, 114, 114, 105, 118, 101>>>>,
    goodbye |->
        <<<<98, 121, 101>>,
          <<103, 111, 111, 100, 98, 121, 101>>,
          <<115, 101, 101, 32, 121, 111, 117>>,
          <<102, 97, 114, 101, 119, 101, 108, 108>>,
          <<116, 104, 97, 110, 107, 115>>,
          <<100, 111, 110, 101>>,
          <<102, 105, 110, 105, 115, 104, 101, 100>>>>]

\* _load_response_templates()['th']
ThaiTemplates ==
    [greeting |->
        <<<<3626, 3623, 3633, 3626, 3604, 3637, 3588, 3619, 3633, 3610, 33, 32, 3618, 3636, 3609,
            3604, 3637, 3605, 3657, 3629, 3609, 3619, 3633, 3610, 3648, 3586, 3657, 3634, 3626, 3641,
            3656, 3619, 3632, 3610, 3610, 32, 73, 114, 105, 115, 32, 79, 114, 105, 103, 105, 110>>,
          <<3627, 3623, 3633, 3604, 3604, 3637, 3588, 3656, 3632, 33, 32, 3617, 3637, 3629, 3632,
            3652, 3619, 3651, 3627, 3657, 3594, 3656, 3623, 3618, 3648, 3627, 3621, 3639, 3629, 3652,
            3627, 3617, 3588, 3632>>,
          <<3626, 3623, 3633, 3626, 3604, 3637, 3588, 3619, 3633, 3610, 33, 32, 3612, 3617, 3614,
            3619, 3657, 3629, 3617, 3594, 3656, 3623, 3618, 3648, 3627, 3621, 3639, 3629, 3588, 3640,
            3603>>>>,
    product_inquiry |->
        <<<<3648, 3619, 3634, 3617, 3637, 3626, 3636, 3609, 3588, 3657, 3634, 3627, 3621, 3634,
            3585, 3627, 3621, 3634, 3618, 3611, 3619, 3632, 3648, 3616, 3607, 32, 3585, 3619, 3640,
            3603, 3634, 3619, 3632, 3610, 3640, 3626, 3636, 3609, 3588, 3657, 3634, 3607, 3637, 3656,
            3626, 3609, 3651, 3592, 3588, 3619, 3633, 3610>>,
          <<3612, 3621, 3636, 3605, 3616, 3633, 3603, 3601, 3660, 3586, 3629, 3591, 3648, 3619,
            3634, 3617, 3637, 3651, 3627, 3657, 3648, 3621, 3639, 3629, 3585, 3617, 3634, 3585, 3617,
            3634, 3618, 32, 3605, 3657, 3629, 3591, 3585, 3634, 3619, 3607, 3619, 3634, 3610, 3619,
            3634, 3588, 3634, 3626, 3636, 3609, 3588, 3657, 3634, 3651, 3604, 3588, 3632>>,
          <<3618, 3636, 3609, 3604, 3637, 3651, 3627, 3657, 3586, 3657, 3629, 3617, 3641, 3621,
            3626, 3636, 3609, 3588, 3657, 3634, 3588, 3619, 3633, 3610, 32, 3585, 3619, 3640, 3603,
            3634, 3610, 3629, 3585, 3619, 3634, 3618, 3621, 3632, 3648, 3629, 3637, 3618, 3604, 3607,
            3637, 3656, 3605, 3657, 3629, 3591, 3585, 3634, 3619>>>>,
    support_request |->
        <<<<3612, 3617, 3614, 3619, 3657, 3629, 3617, 3594, 3656, 3623, 3618, 3649, 3585, 3657,
            3652, 3586, 3611, 3633, 3597, 3627, 3634, 3588, 3619, 3633, 3610, 32, 3585, 3619, 3640,
            3603, 3634, 3629, 3608, 3636, 3610, 3634, 3618, 3611, 3633, 3597, 3627, 3634, 3607, 3637,
            3656, 3614, 3610>>,
          <<3648, 3619, 3634, 3618, 3636, 3609, 3604, 3637, 3594, 3656, 3623, 3618, 3648, 3627,
            3621, 3639, 3629, 3588, 3656, 3632, 32, 3650, 3611, 3619, 3604, 3649, 3592, 3657, 3591,
            3619, 3634, 3618, 3621, 3632, 3648, 3629, 3637, 3618, 3604, 3611, 3633, 3597, 3627, 3634>>,
          <<3607, 3637, 3617, 3591, 3634, 3609, 3614, 3619, 3657, 3629, 3617, 3651, 3627, 3657,
            3588, 3623, 3634, 3617, 3594, 3656, 3623, 3618, 3648, 3627, 3621, 3639, 3629, 3588, 3619,
            3633, 3610>>>>,
    complaint |->
        <<<<3586, 3629, 3629, 3616, 3633, 3618, 3588, 3619, 3633, 3610, 32, 3648, 3619, 3634, 3592,
            3632, 3611, 3619, 3633, 3610, 3611, 3619, 3640, 3591, 3649, 3621, 3632, 3649, 3585, 3657,
            3652, 3586, 3651, 3627, 3657, 3604, 3637, 3586, 3638, 3657, 3609>>,
          <<3648, 3619, 3634, 3648, 3626, 3637, 3618, 3651, 3592, 3607, 3637, 3656, 3588, 3640,
            3603, 3652, 3617, 3656, 3614, 3629, 3651, 3592, 32, 3592, 3632, 3609, 3635, 3652, 3611,
            3614, 3633, 3602, 3609, 3634, 3651, 3627, 3657, 3604, 3637, 3585, 3623, 3656, 3634, 3609,
            3637, 3657, 3588, 3656, 3632>>,
          <<3586, 3629, 3610, 3588, 3640, 3603, 3626, 3635, 3627, 3619, 3633, 3610, 3586, 3657,
            3629, 3648, 3626, 3609, 3629, 3649, 3609, 3632, 3588, 3619, 3633, 3610, 32, 3648, 3619,
            3634, 3592, 3632, 3649, 3585, 3657, 3652, 3586, 3611, 3619, 3633, 3610, 3611, 3619, 3640,
            3591>>>>,
    compliment |->
        <<<<3586, 3629, 3610, 3588, 3640, 3603, 3617, 3634, 3585, 3588, 3619, 3633, 3610, 33, 32,
            3648, 3619, 3634, 3604, 3637, 3651, 3592, 3607, 3637, 3656, 3588, 3640, 3603, 3614, 3629,
            3651, 3592, 3585, 3633, 3610, 3610, 3619, 3636, 3585, 3634, 3619>>,
          <<3618, 3636, 3609, 3604, 3637, 3617, 3634, 3585, 3588, 3656, 3632, 33, 32, 3648, 3619,
            3634, 3592, 3632, 3619, 3633, 3585, 3625, 3634, 3617, 3634, 3605, 3619, 3600, 3634, 3609,
            3609, 3637, 3657, 3652, 3623, 3657>>,
          <<3586, 3629, 3610, 3588, 3640, 3603, 3588, 3619, 3633, 3610, 33, 32, 3585, 3635, 3621,
            3633, 3591, 3651, 3592, 3609, 3637, 3657, 3594, 3656, 3623, 3618, 3648, 3619, 3634, 3614,
            3633, 3602, 3609, 3634, 3605, 3656, 3629, 3652, 3611>>>>,
    order_status |->
        <<<<3585, 3619, 3640, 3603, 3634, 3649, 3592, 3657, 3591, 3627, 3617, 3634, 3618, 3648,
            3621, 3586, 3588, 3635, 3626, 3633, 3656, 3591, 3595, 3639, 3657, 3629, 3588, 3619, 3633,
            3610, 32, 3648, 3619, 3634, 3592, 3632, 3605, 3619, 3623, 3592, 3626, 3629, 3610, 3626,
            3606, 3634, 3609, 3632, 3651, 3627, 3657>>,
          <<3605, 3657, 3629, 3591, 3585, 3634, 3619, 3648, 3621, 3586, 3629, 3629, 3648, 3604,
            3629, 3619, 3660, 3648, 3614, 3639, 3656, 3629, 3605, 3619, 3623, 3592, 3626, 3629, 3610,
            3585, 3634, 3619, 3592, 3633, 3604, 3626, 3656, 3591, 3588, 3656, 3632>>,
          <<3612, 3617, 3592, 3632, 3594, 3656, 3623, 3618, 3605, 3619, 3623, 3592, 3626, 3629,
            3610, 3626, 3606, 3634, 3609, 3632, 3585, 3634, 3619, 3626, 3633, 3656, 3591, 3595, 3639,
            3657, 3629, 3588, 3619, 3633, 3610>>>>,
    goodbye |->
        <<<<3586, 3629, 3610, 3588, 3640, 3603, 3588, 3619, 3633, 3610, 33, 32, 3627, 3623, 3633,
            3591, 3623, 3656, 3634, 3592, 3632, 3652, 3604, 3657, 3619, 3633, 3610, 3651, 3594, 3657,
            3629, 3637, 3585>>,
          <<3621, 3634, 3585, 3656, 3629, 3609, 3588, 3656, 3632, 33, 32, 3617, 3637, 3629, 3632,
            3652, 3619, 3605, 3636, 3604, 3605, 3656, 3629, 3652, 3604, 3657, 3648, 3626, 3617, 3629>>,
          <<3649, 3621, 3657, 3623, 3648, 3592, 3629, 3585, 3633, 3609, 3651, 3627, 3617, 3656,
            3588, 3619, 3633, 3610, 33, 32, 3626, 3623, 3633, 3626, 3604, 3637>>>>,
    unknown |->
        <<<<3586, 3629, 3629, 3616, 3633, 3618, 3588, 3619, 3633, 3610, 32, 3612, 3617, 3652, 3617,
            3656, 3648, 3586, 3657, 3634, 3651, 3592, 3588, 3635, 3606, 3634, 3617, 32, 3585, 3619,
            3640, 3603, 3634, 3629, 3608, 3636, 3610, 3634, 3618, 3648, 3614, 3636, 3656, 3617, 3648,
            3605, 3636, 3617>>,
          <<3586, 3629, 3650, 3607, 3625, 3588, 3656, 3632, 32, 3652, 3617, 3656, 3648, 3586, 3657,
            3634, 3651, 3592, 32, 3650, 3611, 3619, 3604, 3629, 3608, 3636, 3610, 3634, 3618, 3651,
            3627, 3617, 3656>>,
          <<3585, 3619, 3640, 3603, 3634, 3629, 3608, 3636, 3610, 3634, 3618, 3651, 3627, 3657,
            3594, 3633, 3604, 3648, 3592, 3609, 3585, 3623, 3656, 3634, 3609, 3637, 3657, 3588, 3619,
            3633, 3610>>>>]

\* _load_response_templates()['en']
EnglishTemplates ==
    [greeting |->
        <<<<72, 101, 108, 108, 111, 33, 32, 87, 101, 108, 99, 111, 109, 101, 32, 116, 111, 32, 73,
            114, 105, 115, 32, 79, 114, 105, 103, 105, 110, 32, 65, 73, 32, 115, 121, 115, 116, 101,
            109>>,
          <<72, 105, 32, 116, 104, 101, 114, 101, 33, 32, 72, 111, 119, 32, 99, 97, 110, 32, 73, 32,
            104, 101, 108, 112, 32, 121, 111, 117, 32, 116, 111, 100, 97, 121, 63>>,
          <<71, 114, 101, 101, 116, 105, 110, 103, 115, 33, 32, 73, 39, 109, 32, 104, 101, 114, 101,
            32, 116, 111, 32, 97, 115, 115, 105, 115, 116, 32, 121, 111, 117>>>>,
    product_inquiry |->
        <<<<87, 101, 32, 104, 97, 118, 101, 32, 118, 97, 114, 105, 111, 117, 115, 32, 112, 114, 111,
            100, 117, 99, 116, 115, 32, 97, 118, 97, 105, 108, 97, 98, 108, 101, 46, 32, 87, 104, 105,
            99, 104, 32, 111, 110, 101, 32, 105, 110, 116, 101, 114, 101, 115, 116, 115, 32, 121, 111,
            117, 63>>,
          <<73, 39, 100, 32, 98, 101, 32, 104, 97, 112, 112, 121, 32, 116, 111, 32, 104, 101, 108,
            112, 32, 119, 105, 116, 104, 32, 112, 114, 111, 100, 117, 99, 116, 32, 105, 110, 102, 111,
            114, 109, 97, 116, 105, 111, 110, 46, 32, 87, 104, 97, 116, 32, 97, 114, 101, 32, 121,
            111, 117, 32, 108, 111, 111, 107, 105, 110, 103, 32, 102, 111, 114, 63>>,
          <<80, 108, 101, 97, 115, 101, 32, 108, 101, 116, 32, 109, 101, 32, 107, 110, 111, 119, 32,
            119, 104, 105, 99, 104, 32, 112, 114, 111, 100, 117, 99, 116, 32, 121, 111, 117, 39, 100,
            32, 108, 105, 107, 101, 32, 116, 111, 32, 107, 110, 111, 119, 32, 97, 98, 111, 117, 116>>>>,
    support_request |->
        <<<<73, 39, 109, 32, 104, 101, 114, 101, 32, 116, 111, 32, 104, 101, 108, 112, 33, 32, 80,
            108, 101, 97, 115, 101, 32, 100, 101, 115, 99, 114, 105, 98, 101, 32, 116, 104, 101, 32,
            105, 115, 115, 117, 101, 32, 121, 111, 117, 39, 114, 101, 32, 102, 97, 99, 105, 110, 103>>,
          <<73, 39, 108, 108, 32, 97, 115, 115, 105, 115, 116, 32, 121, 111, 117, 32, 119, 105, 116,
            104, 32, 116, 104, 97, 116, 46, 32, 67, 97, 110, 32, 121, 111, 117, 32, 112, 114, 111,
            118, 105, 100, 101, 32, 109, 111, 114, 101, 32, 100, 101, 116, 97, 105, 108, 115, 63>>,
          <<79, 117, 114, 32, 115, 117, 112, 112, 111, 114, 116, 32, 116, 101, 97, 109, 32, 105,
            115, 32, 114, 101, 97, 100, 121, 32, 116, 111, 32, 104, 101, 108, 112, 46, 32, 87, 104,
            97, 116, 39, 115, 32, 116, 104, 101, 32, 112, 114, 111, 98, 108, 101, 109, 63>>>>,
    complaint |->
        <<<<73, 32, 97, 112, 111, 108, 111, 103, 105, 122, 101, 32, 102, 111, 114, 32, 116, 104,
            101, 32, 105, 110, 99, 111, 110, 118, 101, 110, 105, 101, 110, 99, 101, 46, 32, 87, 101,
            39, 108, 108, 32, 119, 111, 114, 107, 32, 116, 111, 32, 105, 109, 112, 114, 111, 118,
            101>>,
          <<84, 104, 97, 110, 107, 32, 121, 111, 117, 32, 102, 111, 114, 32, 121, 111, 117, 114, 32,
            102, 101, 101, 100, 98, 97, 99, 107, 46, 32, 87, 101, 39, 108, 108, 32, 97, 100, 100, 114,
            101, 115, 115, 32, 116, 104, 105, 115, 32, 105, 115, 115, 117, 101>>,
          <<73, 39, 109, 32, 115, 111, 114, 114, 121, 32, 97, 98, 111, 117, 116, 32, 116, 104, 97,
            116, 46, 32, 87, 101, 32, 118, 97, 108, 117, 101, 32, 121, 111, 117, 114, 32, 105, 110,
            112, 117, 116, 32, 102, 111, 114, 32, 105, 109, 112, 114, 111, 118, 101, 109, 101, 110,
            116>>>>,
    compliment |->
        <<<<84, 104, 97, 110, 107, 32, 121, 111, 117, 32, 115, 111, 32, 109, 117, 99, 104, 33, 32,
            87, 101, 39, 114, 101, 32, 103, 108, 97, 100, 32, 121, 111, 117, 39, 114, 101, 32, 115,
            97, 116, 105, 115, 102, 105, 101, 100>>,
          <<87, 101, 32, 97, 112, 112, 114, 101, 99, 105, 97, 116, 101, 32, 121, 111, 117, 114, 32,
            107, 105, 110, 100, 32, 119, 111, 114, 100, 115, 33, 32, 84, 104, 97, 110, 107, 32, 121,
            111, 117>>,
          <<84, 104, 97, 116, 32, 109, 101, 97, 110, 115, 32, 97, 32, 108, 111, 116, 32, 116, 111,
            32, 117, 115, 33, 32, 84, 104, 97, 110, 107, 115, 32, 102, 111, 114, 32, 116, 104, 101,
            32, 102, 101, 101, 100, 98, 97, 99, 107>>>>,
    order_status |->
        <<<<73, 32, 99, 97, 110, 32, 104, 101, 108, 112, 32, 99, 104, 101, 99, 107, 32, 121, 111,
            117, 114, 32, 111, 114, 100, 101, 114, 32, 115, 116, 97, 116, 117, 115, 46, 32, 80, 108,
            101, 97, 115, 101, 32, 112, 114, 111, 118, 105, 100, 101, 32, 121, 111, 117, 114, 32, 111,
            114, 100, 101, 114, 32, 110, 117, 109, 98, 101, 114>>,
          <<76, 101, 116, 32, 109, 101, 32, 108, 111, 111, 107, 32, 117, 112, 32, 121, 111, 117,
            114, 32, 111, 114, 100, 101, 114, 46, 32, 87, 104, 97, 116, 39, 115, 32, 121, 111, 117,
            114, 32, 111, 114, 100, 101, 114, 32, 73, 68, 63>>,
          <<73, 39, 108, 108, 32, 99, 104, 101, 99, 107, 32, 116, 104, 101, 32, 100, 101, 108, 105,
            118, 101, 114, 121, 32, 115, 116, 97, 116, 117, 115, 32, 102, 111, 114, 32, 121, 111,
            117>>>>,
    goodbye |->
        <<<<71, 111, 111, 100, 98, 121, 101, 33, 32, 70, 101, 101, 108, 32, 102, 114, 101, 101, 32,
            116, 111, 32, 114, 101, 97, 99, 104, 32, 111, 117, 116, 32, 97, 110, 121, 116, 105, 109,
            101>>,
          <<84, 104, 97, 110, 107, 32, 121, 111, 117, 33, 32, 72, 97, 118, 101, 32, 97, 32, 103,
            114, 101, 97, 116, 32, 100, 97, 121>>,
          <<83, 101, 101, 32, 121, 111, 117, 32, 110, 101, 120, 116, 32, 116, 105, 109, 101, 33, 32,
            84, 97, 107, 101, 32, 99, 97, 114, 101>>>>,
    unknown |->
        <<<<73, 32, 100, 105, 100, 110, 39, 116, 32, 117, 110, 100, 101, 114, 115, 116, 97, 110,
            100, 32, 116, 104, 97, 116, 46, 32, 67, 111, 117, 108, 100, 32, 121, 111, 117, 32, 112,
            108, 101, 97, 115, 101, 32, 99, 108, 97, 114, 105, 102, 121, 63>>,
          <<73, 39, 109, 32, 110, 111, 116, 32, 115, 117, 114, 101, 32, 119, 104, 97, 116, 32, 121,
            111, 117, 32, 109, 101, 97, 110, 46, 32, 67, 97, 110, 32, 121, 111, 117, 32, 101, 120,
            112, 108, 97, 105, 110, 32, 100, 105, 102, 102, 101, 114, 101, 110, 116, 108, 121, 63>>,
          <<80, 108, 101, 97, 115, 101, 32, 112, 114, 111, 118, 105, 100, 101, 32, 109, 111, 114,
            101, 32, 100, 101, 116, 97, 105, 108, 115, 32, 115, 111, 32, 73, 32, 99, 97, 110, 32, 104,
            101, 108, 112, 32, 98, 101, 116, 116, 101, 114>>>>]

\* the particles _generate_response looks for (khrap, kha)
Khrap == <<3588, 3619, 3633, 3610>>
Kha == <<3588, 3656, 3632>>

\* the apology of the except branch of process_message (Thai / English)
SimpleApology ==
    <<3586, 3629, 3629, 3616, 3633, 3618, 3588, 3619, 3633, 3610, 32, 3648, 3585, 3636, 3604, 3586,
      3657, 3629, 3612, 3636, 3604, 3614, 3621, 3634, 3604, 32, 47, 32, 83, 111, 114, 114, 121, 44,
      32, 97, 110, 32, 101, 114, 114, 111, 114, 32, 111, 99, 99, 117, 114, 114, 101, 100>>

\* the answers of the except branch of _generate_response
CannotGenerateThai ==
    <<3586, 3629, 3629, 3616, 3633, 3618, 3588, 3619, 3633, 3610, 32, 3652, 3617, 3656, 3626, 3634,
      3617, 3634, 3619, 3606, 3626, 3619, 3657, 3634, 3591, 3588, 3635, 3605, 3629, 3610, 3652, 3604,
      3657>>
CannotGenerateEnglish ==
    <<83, 111, 114, 114, 121, 44, 32, 73, 32, 99, 97, 110, 110, 111, 116, 32, 103, 101, 110, 101,
      114, 97, 116, 101, 32, 97, 32, 114, 101, 115, 112, 111, 110, 115, 101, 32, 114, 105, 103, 104,
      116, 32, 110, 111, 119>>

\* the classes [\u0E00-\u0E7F] and [a-zA-Z] of the regular expressions
IsThaiChar(c) == c \in 3584..3711
IsEnglishChar(c) == c \in 65..90 \cup 97..122

\* _detect_language
DetectLanguage(text) ==
    LET thai_chars == Cardinality({i \in 1..Len(text) : IsThaiChar(text[i])})
        english_chars == Cardinality({i \in 1..Len(text) : IsEnglishChar(text[i])})
    IN  IF thai_chars > english_chars THEN "th"
        ELSE IF english_chars > 0 THEN "en"
        ELSE "unknown"

\* the number of keywords of the list found in the lower-cased text
KeywordScore(text_lower, intent_keywords) ==
    Cardinality({k \in 1..Len(intent_keywords) : Contains(text_lower, intent_keywords[k])})

\* min(0.9, score * 0.3) in tenths. As floats 3 * 0.3 is 0.8999999999999999, below
\* the 0.9 of four matches and more: ConfidenceRank orders the floats.
IntentConfidence(score) == Min2(9, 3 * score)
ConfidenceRank(score) == Min2(4, score)

\* _classify_intent: max(intent_scores, key=intent_scores.get) is the first key,
\* in insertion order, of the highest confidence
ClassifyIntent(text, language) ==
    LET text_lower == Lower(text)
        keywords == IF language = "th" THEN ThaiKeywords ELSE EnglishKeywords
        score(i) == KeywordScore(text_lower, keywords[IntentOrder[i]])
        scored == {i \in 1..Len(IntentOrder) : score(i) > 0}
    IN  IF scored = {} THEN <<"unknown", 5>>
        ELSE LET best == CHOOSE i \in scored :
                             \A j \in scored :
                                 \/ ConfidenceRank(score(j)) < ConfidenceRank(score(i))
                                 \/ (ConfidenceRank(score(j)) = ConfidenceRank(score(i)) /\ i <= j)
             IN  <<IntentOrder[best], IntentConfidence(score(best))>>

\* _analyze_sentiment on the polarity TextBlob answers (tenths, even, so that
\* (polarity + 1) / 2 is whole tenths); a failure of TextBlob is caught
AnalyzeSentiment(polarity, fault) ==
    IF fault = "analyze_sentiment" THEN <<"neutral", 5>>
    ELSE <<IF polarity > 1 THEN "positive" ELSE IF polarity < -1 THEN "negative" ELSE "neutral",
           (polarity + 10) \div 2>>

\* re \d and \w on ASCII and Thai characters
IsDigit(c) == c \in 48..57 \cup 3664..3673
IsWordChar(c) ==
    c \in 48..57 \cup 65..90 \cup {95} \cup 97..122
          \cup 3585..3632 \cup 3634..3635 \cup 3648..3654 \cup 3664..3673

\* \b between positions i and i + 1 of the text
WordBoundary(text, i) ==
    (i >= 1 /\ IsWordChar(text[i])) # (i < Len(text) /\ IsWordChar(text[i + 1]))

\* _extract_entities on texts without '.', '@' and '+', and shorter than a phone
\* number: the NUMBER entities, the matches of \b\d+\b from left to right
ExtractEntities(text) ==
    LET starts == {i \in 1..Len(text) :
                      /\ IsDigit(text[i])
                      /\ WordBoundary(text, i - 1)
                      /\ \E j \in i..Len(text) :
                            /\ \A k \in i..j : IsDigit(text[k])
                            /\ j = Len(text) \/ ~IsDigit(text[j + 1])
                            /\ WordBoundary(text, j)}
        end(i) == CHOOSE j \in i..Len(text) :
                      /\ \A k \in i..j : IsDigit(text[k])
                      /\ j = Len(text) \/ ~IsDigit(text[j + 1])
        ordered[n \in 0..Len(text)] ==
            IF n = 0 THEN <<>>
            ELSE IF n \in starts
            THEN Append(ordered[n - 1],
                        [text |-> SubSeq(text, n, end(n)), label |-> "NUMBER", confidence |-> 8])
            ELSE ordered[n - 1]
    IN  ordered[Len(text)]

\* str.replace(old, new), old not empty
RECURSIVE Replace(_, _, _)
Replace(text, old, new) ==
    IF Len(text) < Len(old) THEN text
    ELSE IF SubSeq(text, 1, Len(old)) = old
    THEN new \o Replace(SubSeq(text, Len(old) + 1, Len(text)), old, new)
    ELSE <<text[1]>> \o Replace(Tail(text), old, new)

\* the steps of SimpleAIProcessor that can fail
SimpleFaults ==
    {"none", "detect_language", "classify_intent", "analyze_sentiment",
     "extract_entities", "generate_response"}

\* the steps whose exception reaches the except branch of process_message:
\* _analyze_sentiment and _generate_response catch their own
SimpleRaises(fault) == fault \in {"detect_language", "classify_intent", "extract_entities"}

\* _generate_response answering nothing when the language has no template table,
\* instead of falling back on the English one
GenerateResponseNoDefault(intent, language, original_text, choice, fault) ==
    IF language \notin {"th", "en"} THEN <<>>
    ELSE IF language = "th" THEN ThaiTemplates[intent][choice]
    ELSE EnglishTemplates[intent][choice]

\* _generate_response; choice is the index random.choice picks
GenerateResponse(intent, language, original_text, choice, fault) ==
    IF fault = "generate_response"
    THEN IF language = "th" THEN CannotGenerateThai ELSE CannotGenerateEnglish
    ELSE LET templates == IF language = "th" THEN ThaiTemplates ELSE EnglishTemplates
             responses == IF intent \in DOMAIN templates THEN templates[intent]
                          ELSE templates["unknown"]
             selected_response == responses[choice]
         IN  IF Contains(original_text, Khrap) /\ language = "th"
             THEN IF ~Contains(selected_response, Khrap)
                  THEN selected_response \o <<32>> \o Khrap
                  ELSE selected_response
             ELSE IF Contains(original_text, Kha) /\ language = "th"
             THEN IF ~Contains(selected_response, Kha)
                  THEN Replace(selected_response, Khrap, Kha)
                  ELSE selected_response
             ELSE selected_response

\* the result of the except branch of process_message
SimpleErrorResult ==
    [intent |-> "error", confidence |-> 0, sentiment |-> "neutral", sentiment_score |-> 5,
     language |-> "unknown", entities |-> <<>>, suggested_response |-> SimpleApology]

\* the try block of process_message, steps 1 to 5
SimpleProcessMessageTry(message_text, user_id, polarity, choice, fault) ==
    IF SimpleRaises(fault) THEN Raised
    ELSE LET language == DetectLanguage(message_text)
             classified == ClassifyIntent(message_text, language)
             analyzed == AnalyzeSentiment(polarity, fault)
         IN  Returned([intent |-> classified[1], confidence |-> classified[2],
                       sentiment |-> analyzed[1], sentiment_score |-> analyzed[2],
                       language |-> language,
                       entities |-> ExtractEntities(message_text),
                       suggested_response |->
                           GenerateResponse(classified[1], language, message_text,
                                            choice, fault)])

\* process_message without its except branch
SimpleProcessMessageUnguarded(message_text, user_id, polarity, choice, fault) ==
    SimpleProcessMessageTry(message_text, user_id, polarity, choice, fault)

\* process_message(message_text, user_id): what it hands back
SimpleProcessMessage(message_text, user_id, polarity, choice, fault) ==
    LET tried == SimpleProcessMessageTry(message_text, user_id, polarity, choice, fault)
    IN  IF tried.status = "raised" THEN Returned(SimpleErrorResult) ELSE tried

\* a call of SimpleAIProcessor.process_message that has not returned yet
SimpleRequest(message_text, user_id, fault) ==
    [processor |-> "simple", message_text |-> message_text, user_id |-> user_id,
     fault |-> fault]

\* the pending call runs and returns
simple_process_message(polarity, choice) ==
    /\ request.processor = "simple"
    /\ result.status = "none"
    /\ result' = SimpleProcessMessage(request.message_text, request.user_id,
                                      polarity, choice, request.fault)
    /\ UNCHANGED <<mgr_vars, tasks, request>>

----------------------------------------------------------------------------
(* SpecSimple: SimpleAIProcessor.process_message on the texts made of at   *)
(* most MaxFragments fragments, the empty text and the blank ones          *)
(* included, for every polarity, template and failing step. A run is one   *)
(* call: the arguments are drawn by InitSimple.                            *)

MaxFragments == 2

Fragments ==
    {<<32>>,                                  \* a space
     <<104, 105>>,                            \* hi
     <<72, 101, 108, 112>>,                   \* Help
     <<53>>,                                  \* 5
     Khrap, Kha,
     <<3626, 3623, 3633, 3626, 3604, 3637>>,  \* sawasdee, a greeting
     <<3649, 3618, 3656>>}                    \* yae, a complaint

RECURSIVE TextsOf(_)
TextsOf(n) ==
    IF n = 0 THEN {<<>>}
    ELSE TextsOf(n - 1) \cup {t \o f : t \in TextsOf(n - 1), f \in Fragments}

Texts == TextsOf(MaxFragments)
Polarities == {-10, -2, 0, 2, 10}
TemplateChoices == 1..3

InitSimple ==
    \E text \in Texts, fault \in SimpleFaults :
        /\ active_conversations = <<>>
        /\ user_profiles = <<>>
        /\ now = 0
        /\ arrivals = <<>>
        /\ processed = <<>>
        /\ tasks = <<>>
        /\ request = SimpleRequest(text, "test_user", fault)
        /\ result = [status |-> "none"]

NextSimple ==
    \E polarity \in Polarities, choice \in TemplateChoices :
        simple_process_message(polarity, choice)

SpecSimple == InitSimple /\ [][NextSimple]_vars

----------------------------------------------------------------------------
(* SpecIntent: SimpleAIProcessor.process_message on texts that hold        *)
(* several keywords of one intent and of another: every selection of the   *)
(* keyword fragments, in their order, and one message of the API test. A   *)
(* run is one call without a failing step.                                 *)

KeywordFragments ==
    <<<<104, 101, 108, 108, 111, 32>>,  \* hello
      <<104, 101, 121, 32>>,  \* hey
      <<111, 114, 100, 101, 114, 32>>,  \* order
      <<115, 116, 97, 116, 117, 115, 32>>,  \* status
      <<115, 104, 105, 112, 112, 101, 100, 32>>,  \* shipped
      <<119, 104, 101, 110, 32>>,  \* when
      <<3626, 3623, 3633, 3626, 3604, 3637, 32>>,  \* sawasdee
      <<3604, 3637, 3588, 3619, 3633, 3610, 32>>>>  \* dee khrap

\* "Hello, I need help with my order"
OrderHelpText ==
    <<72, 101, 108, 108, 111, 44, 32, 73, 32, 110, 101, 101, 100, 32, 104,
      101, 108, 112, 32, 119, 105, 116, 104, 32, 109, 121, 32, 111, 114, 100,
      101, 114>>

\* the fragments selected by S, concatenated from the i-th on
RECURSIVE KeywordText(_, _)
KeywordText(S, i) ==
    IF i > Len(KeywordFragments) THEN <<>>
    ELSE (IF i \in S THEN KeywordFragments[i] ELSE <<>>) \o KeywordText(S, i + 1)

KeywordTexts ==
    {KeywordText(S, 1) : S \in SUBSET (1..Len(KeywordFragments))} \cup {OrderHelpText}

InitIntent ==
    \E text \in KeywordTexts :
        /\ active_conversations = <<>>
        /\ user_profiles = <<>>
        /\ now = 0
        /\ arrivals = <<>>
        /\ processed = <<>>
        /\ tasks = <<>>
        /\ request = SimpleRequest(text, "test_user", "none")
        /\ result = [status |-> "none"]

NextIntent ==
    \E polarity \in Polarities, choice \in TemplateChoices :
        simple_process_message(polarity, choice)

SpecIntent == InitIntent /\ [][NextIntent]_vars

----------------------------------------------------------------------------
(* The sentiment scorers. SimpleAIProcessor._analyze_sentiment of          *)
(* simple_processor.py scores by TextBlob's polarity (AnalyzeSentiment     *)
(* above); SimpleAIProcessor._analyze_sentiment of simple_api_server.py    *)
(* counts marker words. Scores are in tenths.                              *)

\* positive_words (simple_api_server.py, line 188), the strings as the file holds them
PositiveWords ==
    <<<<103, 111, 111, 100>>,  \* good
      <<103, 114, 101, 97, 116>>,  \* great
      <<101, 120, 99, 101, 108, 108, 101, 110, 116>>,  \* excellent
      <<8225, 8719, 238, 8225, 8719, 181>>,
      <<8225, 960, 196, 8225, 8719, 162, 8225, 8719, 181, 8225, 960, 224, 8225, 8719,
       162, 8225, 8719, 176>>,
      <<8225, 8719, 162, 8225, 8719, 8800, 8225, 8719, 238>>,
      <<8225, 8719, 199, 8225, 8719, 8800, 8225, 8719, 246, 8225, 8719, 209, 8225,
       8719, 8719, 8225, 8719, 236>>,
      <<116, 104, 97, 110, 107>>,  \* thank
      <<108, 111, 118, 101>>,  \* love
      <<108, 105, 107, 101>>,  \* like
      <<8225, 8719, 228, 8225, 8719, 8800, 8225, 8719, 246>>>>

\* negative_words (simple_api_server.py, line 189), the strings as the file holds them
NegativeWords ==
    <<<<98, 97, 100>>,  \* bad
      <<116, 101, 114, 114, 105, 98, 108, 101>>,  \* terrible
      <<97, 119, 102, 117, 108>>,  \* awful
      <<8225, 960, 197, 8225, 8719, 162, 8225, 960, 224>>,
      <<8225, 960, 209, 8225, 8719, 176, 8225, 960, 224, 8225, 8719, 238, 8225, 8719, 181>>,
      <<8225, 960, 196, 8225, 8719, 8482, 8225, 8719, 181, 8225, 8719, 162>>,
      <<8225, 8719, 246, 8225, 960, 224, 8225, 8719, 244>>,
      <<8225, 8719, 163, 8225, 960, 226, 8225, 8719, 8800, 8225, 8719, 225, 8225, 960,
       196, 8225, 8719, 163, 8225, 8719, 181, 8225, 8719, 162, 8225, 8719, 244>>,
      <<97, 110, 103, 114, 121>>,  \* angry
      <<104, 97, 116, 101>>,  \* hate
      <<8225, 960, 196, 8225, 8719, 197, 8225, 8719, 8226, 8225, 8719, 181, 8225,
       8719, 162, 8225, 8719, 238>>>>

\* marker words, each followed by a space; the last is the fifth negative word as
\* the file holds it: it contains the fourth positive one, and a capital letter
\* that text.lower() changes
MarkerFragments ==
    <<<<103, 111, 111, 100, 32>>,  \* good
      <<103, 114, 101, 97, 116, 32>>,  \* great
      <<101, 120, 99, 101, 108, 108, 101, 110, 116, 32>>,  \* excellent
      <<116, 104, 97, 110, 107, 32>>,  \* thank
      <<108, 111, 118, 101, 32>>,  \* love
      <<98, 97, 100, 32>>,  \* bad
      <<116, 101, 114, 114, 105, 98, 108, 101, 32>>,  \* terrible
      <<97, 119, 102, 117, 108, 32>>,  \* awful
      <<97, 110, 103, 114, 121, 32>>,  \* angry
      <<8225, 960, 209, 8225, 8719, 176, 8225, 960, 224, 8225, 8719, 238, 8225, 8719, 181, 32>>>>

\* sum(1 for word in words if word in text_lower)
MarkerCount(text_lower, words) ==
    Cardinality({k \in 1..Len(words) : Contains(text_lower, words[k])})

\* simple_api_server.py, _analyze_sentiment: <<sentiment, score>>
KeywordSentiment(text) ==
    LET text_lower == Lower(text)
        pos_count == MarkerCount(text_lower, PositiveWords)
        neg_count == MarkerCount(text_lower, NegativeWords)
    IN  IF pos_count > neg_count THEN <<"positive", 7 + pos_count>>
        ELSE IF neg_count > pos_count THEN <<"negative", 3 - neg_count>>
        ELSE <<"neutral", 5>>

\* what a scorer has returned for the text of the request
Scored(scorer, answer) ==
    [status |-> "scored", scorer |-> scorer, sentiment |-> answer[1], score |-> answer[2]]

\* simple_processor.py, _analyze_sentiment, TextBlob answering polarity or failing
analyze_sentiment(polarity, fault) ==
    /\ request.processor = "scorer"
    /\ result.status = "none"
    /\ result' = Scored("polarity", AnalyzeSentiment(polarity, fault))
    /\ UNCHANGED <<mgr_vars, tasks, request>>

\* simple_api_server.py, _analyze_sentiment
server_analyze_sentiment ==
    /\ request.processor = "scorer"
    /\ result.status = "none"
    /\ result' = Scored("keywords", KeywordSentiment(request.message_text))
    /\ UNCHANGED <<mgr_vars, tasks, request>>

----------------------------------------------------------------------------
(* SpecSentiment: both scorers on the texts made of every selection of the *)
(* marker fragments. A run is one call of one scorer.                      *)

RECURSIVE MarkerText(_, _)
MarkerText(S, i) ==
    IF i > Len(MarkerFragments) THEN <<>>
    ELSE (IF i \in S THEN MarkerFragments[i] ELSE <<>>) \o MarkerText(S, i + 1)

MarkerTexts == {MarkerText(S, 1) : S \in SUBSET (1..Len(MarkerFragments))}

InitSentiment ==
    \E text \in MarkerTexts :
        /\ active_conversations = <<>>
        /\ user_profiles = <<>>
        /\ now = 0
        /\ arrivals = <<>>
        /\ processed = <<>>
        /\ tasks = <<>>
        /\ request = [processor |-> "scorer", message_text |-> text]
        /\ result = [status |-> "none"]

NextSentiment ==
    \/ \E polarity \in Polarities, fault \in {"none", "analyze_sentiment"} :
          analyze_sentiment(polarity, fault)
    \/ server_analyze_sentiment

SpecSentiment == InitSentiment /\ [][NextSentiment]_vars

----------------------------------------------------------------------------
(* LanguageDetector._detect_by_characters (utils/language_detector.py). The *)
(* patterns thai_chars and english_chars end in +, so findall returns the   *)
(* maximal runs of characters of the class, and the counts are numbers of   *)
(* runs. A confidence is the quotient <<numerator, denominator>>.           *)

\* len(pattern.findall(text)) for a pattern [class]+
RunCount(text, class) ==
    Cardinality({i \in 1..Len(text) :
                    text[i] \in class /\ (i = 1 \/ text[i - 1] \notin class)})

\* the characters of the text the patterns thai_chars and english_chars match
ThaiCharsOf(text) == {c \in Range(text) : IsThaiChar(c)}
EnglishCharsOf(text) == {c \in Range(text) : IsEnglishChar(c)}

\* len(re.sub(r'\s+', '', text))
NonSpaceCount(text) == Cardinality({i \in 1..Len(text) : ~IsSpace(text[i])})

\* a character estimator without the floor of 0.3 on mixed content
DetectByCharactersNoFloor(text) ==
    LET thai_char_count == RunCount(text, ThaiCharsOf(text))
        english_char_count == RunCount(text, EnglishCharsOf(text))
        total_chars == NonSpaceCount(text)
    IN  IF total_chars = 0 THEN <<"unknown", <<0, 1>>>>
        ELSE IF 10 * thai_char_count > 3 * total_chars
        THEN <<"th", <<Min2(95 * total_chars, 60 * total_chars + 35 * thai_char_count),
                       100 * total_chars>>>>
        ELSE IF 10 * english_char_count > 7 * total_chars
        THEN <<"en", <<Min2(90 * total_chars, 60 * total_chars + 30 * english_char_count),
                       100 * total_chars>>>>
        ELSE IF thai_char_count > english_char_count
        THEN <<"th", <<80 * thai_char_count, 100 * total_chars>>>>
        ELSE <<"en", <<80 * english_char_count, 100 * total_chars>>>>

\* _detect_by_characters: <<language, confidence>>
DetectByCharacters(text) ==
    LET thai_char_count == RunCount(text, ThaiCharsOf(text))
        english_char_count == RunCount(text, EnglishCharsOf(text))
        total_chars == NonSpaceCount(text)
    IN  IF total_chars = 0 THEN <<"unknown", <<0, 1>>>>
        ELSE IF 10 * thai_char_count > 3 * total_chars
        THEN <<"th", <<Min2(95 * total_chars, 60 * total_chars + 35 * thai_char_count),
                       100 * total_chars>>>>
        ELSE IF 10 * english_char_count > 7 * total_chars
        THEN <<"en", <<Min2(90 * total_chars, 60 * total_chars + 30 * english_char_count),
                       100 * total_chars>>>>
        ELSE IF thai_char_count > english_char_count
        THEN <<"th", <<Max2(30 * total_chars, 80 * thai_char_count), 100 * total_chars>>>>
        ELSE <<"en", <<Max2(30 * total_chars, 80 * english_char_count), 100 * total_chars>>>>

\* the character estimator answers for the text of the request
detect_by_characters ==
    /\ request.processor = "characters"
    /\ result.status = "none"
    /\ result' = [status |-> "estimated",
                  language |-> DetectByCharacters(request.text)[1],
                  confidence |-> DetectByCharacters(request.text)[2]]
    /\ UNCHANGED <<mgr_vars, tasks, request>>

----------------------------------------------------------------------------
(* SpecChars: the character estimator on every text of at most MaxChars     *)
(* characters over two Thai letters, a Latin letter, a digit and a space.   *)

MaxChars == 5

CharAlphabet == {3585, 3634, 97, 53, 32}

RECURSIVE CharTextsOf(_)
CharTextsOf(n) ==
    IF n = 0 THEN {<<>>}
    ELSE CharTextsOf(n - 1) \cup {Append(t, c) : t \in CharTextsOf(n - 1), c \in CharAlphabet}

CharTexts == CharTextsOf(MaxChars)

InitChars ==
    \E text \in CharTexts :
        /\ active_conversations = <<>>
        /\ user_profiles = <<>>
        /\ now = 0
        /\ arrivals = <<>>
        /\ processed = <<>>
        /\ tasks = <<>>
        /\ request = [processor |-> "characters", text |-> text]
        /\ result = [status |-> "none"]

NextChars == detect_by_characters

SpecChars == InitChars /\ [][NextChars]_vars

----------------------------------------------------------------------------
(* LanguageDetector._combine_detection_results (utils/language_detector.py).*)
(* An estimator's result is <<language, confidence>>, the confidence in     *)
(* hundredths; the weights are in tenths, so scores are in thousandths.     *)

CharWeight == 5
PatternWeight == 3
LibraryWeight == 2

\* the keys of the scores dict, in insertion order
LanguageOrder == <<"th", "en", "unknown">>

\* scores[language] after the three weighted additions
FusionScore(char_result, pattern_result, library_result, language) ==
    (IF char_result[1] = language THEN char_result[2] * CharWeight ELSE 0)
    + (IF pattern_result[1] = language THEN pattern_result[2] * PatternWeight ELSE 0)
    + (IF library_result[1] = language THEN library_result[2] * LibraryWeight ELSE 0)

\* _combine_detection_results: max(scores, key=scores.get) is the first key of the
\* highest score; the alternatives are the other languages of a score above 0.1,
\* the higher score first (the sort is stable)
CombineDetectionResults(char_result, pattern_result, library_result) ==
    LET score(i) == FusionScore(char_result, pattern_result, library_result, LanguageOrder[i])
        best == CHOOSE i \in 1..3 :
                    /\ \A j \in 1..3 : score(j) <= score(i)
                    /\ \A j \in 1..3 : score(j) = score(i) => i <= j
        others == SelectSeq(<<1, 2, 3>>, LAMBDA i : i # best /\ score(i) > 100)
        sorted == IF Len(others) = 2 /\ score(others[1]) < score(others[2])
                  THEN <<others[2], others[1]>> ELSE others
    IN  [language |-> LanguageOrder[best],
         confidence |-> score(best),
         alternative_languages |->
             [k \in 1..Len(sorted) |->
                 [language |-> LanguageOrder[sorted[k]], confidence |-> score(sorted[k])]],
         detection_method |->
             IF char_result[2] >= pattern_result[2] /\ char_result[2] >= library_result[2]
             THEN "character_analysis"
             ELSE IF pattern_result[2] >= library_result[2] THEN "pattern_matching"
             ELSE "library_detection"]

\* the fusion of the pending estimator results returns
combine_detection_results ==
    /\ request.processor = "detector"
    /\ result.status = "none"
    /\ result' = [status |-> "detected",
                  language_result |-> CombineDetectionResults(request.char_result,
                                          request.pattern_result, request.library_result)]
    /\ UNCHANGED <<mgr_vars, tasks, request>>

----------------------------------------------------------------------------
(* SpecFusion: the fusion on the results the estimators can give.           *)
(* _detect_by_characters answers th or en with at least 0.3;                *)
(* _detect_by_patterns answers unknown with 0, th above 0.45 or en from     *)
(* 0.45; _detect_by_library answers unknown with 0, or th or en with at     *)
(* most 0.8.                                                                *)

CharResults == {"th", "en"} \X {30, 50, 80}
PatternResults == {<<"unknown", 0>>} \cup ({"th", "en"} \X {50, 80})
LibraryResults == {<<"unknown", 0>>} \cup ({"th", "en"} \X {30, 50, 80})

InitFusion ==
    \E c \in CharResults, p \in PatternResults, l \in LibraryResults :
        /\ active_conversations = <<>>
        /\ user_profiles = <<>>
        /\ now = 0
        /\ arrivals = <<>>
        /\ processed = <<>>
        /\ tasks = <<>>
        /\ request = [processor |-> "detector", char_result |-> c,
                      pattern_result |-> p, library_result |-> l]
        /\ result = [status |-> "none"]

NextFusion == combine_detection_results

SpecFusion == InitFusion /\ [][NextFusion]_vars

----------------------------------------------------------------------------
(* LanguageDetector.detect_language_with_confidence and _fallback_detection *)
(* (utils/language_detector.py). The result keeps the language, the         *)
(* confidence as a quotient and the detection method.                       *)

MinTextLength == 3

\* _fallback_detection: th as soon as the text holds a Thai character, en otherwise
FallbackDetection(text) ==
    IF \E i \in 1..Len(text) : IsThaiChar(text[i]) THEN "th" ELSE "en"

\* detect_language_with_confidence; pattern_result and library_result are what
\* the two other estimators return (confidence in hundredths), fault is whether
\* a step of the try block raises. The three results are brought to the
\* denominator of the character confidence before the fusion.
DetectLanguageWithConfidence(text, pattern_result, library_result, fault) ==
    IF Len(text) = 0 \/ Len(Strip(text)) < MinTextLength
    THEN [language |-> "unknown", confidence |-> <<0, 1>>,
          detection_method |-> "insufficient_text"]
    ELSE IF fault
    THEN [language |-> FallbackDetection(text), confidence |-> <<5, 10>>,
          detection_method |-> "fallback"]
    ELSE LET char_result == DetectByCharacters(text)
             total_chars == char_result[2][2] \div 100
             final_result == CombineDetectionResults(
                                 <<char_result[1], char_result[2][1]>>,
                                 <<pattern_result[1], pattern_result[2] * total_chars>>,
                                 <<library_result[1], library_result[2] * total_chars>>)
         IN  [language |-> final_result.language,
              confidence |-> <<final_result.confidence, 1000 * total_chars>>,
              detection_method |-> final_result.detection_method]

\* the detector answers for the text of the request
detect_language_with_confidence ==
    /\ request.processor = "language"
    /\ result.status = "none"
    /\ result' = [status |-> "language_detected",
                  language_result |-> DetectLanguageWithConfidence(request.text,
                      request.pattern_result, request.library_result, request.fault)]
    /\ UNCHANGED <<mgr_vars, tasks, request>>

----------------------------------------------------------------------------
(* SpecLanguage: the detector on every text of at most MaxLangChars         *)
(* characters, with each answer the pattern and library estimators can      *)
(* give: _detect_by_patterns answers unknown with 0, or th or en with 0.45  *)
(* to 0.85; _detect_by_library answers unknown with 0, th or en with at     *)
(* most 0.8, or en with 0.3 for another language.                           *)

MaxLangChars == 4

LangPatternResults == {<<"unknown", 0>>} \cup ({"th", "en"} \X {45, 85})
LangLibraryResults == {<<"unknown", 0>>, <<"en", 30>>} \cup ({"th", "en"} \X {1, 80})

InitLanguage ==
    \E text \in CharTextsOf(MaxLangChars), p \in LangPatternResults,
       l \in LangLibraryResults, fault \in BOOLEAN :
        /\ active_conversations = <<>>
        /\ user_profiles = <<>>
        /\ now = 0
        /\ arrivals = <<>>
        /\ processed = <<>>
        /\ tasks = <<>>
        /\ request = [processor |-> "language", text |-> text, pattern_result |-> p,
                      library_result |-> l, fault |-> fault]
        /\ result = [status |-> "none"]

NextLanguage == detect_language_with_confidence

SpecLanguage == InitLanguage /\ [][NextLanguage]_vars

----------------------------------------------------------------------------
(* production_api_server.py: the global ai_processor, startup_event and the *)
(* endpoints /api/v1/process and /api/v1/health. The request record holds   *)
(* the class the module bound to the name SimpleAIProcessor and how the     *)
(* start-up went; the result record holds the global and the answers given. *)

\* the methods the two processor classes define (simple_processor.py 48-333,
\* test_final_ai.py 32-209)
ProcessorMethods ==
    [SimpleAIProcessor |-> {"__init__", "process_message"},
     TestAIProcessor |-> {"__init__", "process_message"}]

\* startup_event: the global ai_processor after it; fault is the step of the try
\* block that raises by itself
StartupEvent(class, fault) ==
    IF fault = "construct" THEN "None"
    ELSE IF "initialize" \notin ProcessorMethods[class] THEN "None"
    ELSE IF fault = "initialize" THEN "None"
    ELSE class

production_startup_event(fault) ==
    /\ request.processor = "production"
    /\ request.startup = "pending"
    /\ request' = [request EXCEPT !.startup = fault]
    /\ result' = [status |-> "serving",
                  ai_processor |-> StartupEvent(request.SimpleAIProcessor, fault),
                  responses |-> <<>>,
                  passed |-> 0]
    /\ UNCHANGED <<mgr_vars, tasks>>

MaxRequests == 5

\* POST /api/v1/process; fault is whether ai_processor.process_message raises
production_process_message(fault) ==
    /\ request.processor = "production"
    /\ result.status = "serving"
    /\ Len(result.responses) < MaxRequests
    /\ result' =
          IF result.ai_processor = "None"
          THEN [result EXCEPT !.responses =
                   Append(@, [endpoint |-> "process", status_code |-> 503])]
          ELSE [result EXCEPT !.passed = @ + 1,
                              !.responses =
                   Append(@, [endpoint |-> "process",
                              status_code |-> IF fault THEN 500 ELSE 200])]
    /\ UNCHANGED <<mgr_vars, tasks, request>>

\* GET /api/v1/health
production_health_check ==
    /\ request.processor = "production"
    /\ result.status = "serving"
    /\ Len(result.responses) < MaxRequests
    /\ result' = [result EXCEPT !.responses =
                     Append(@, [endpoint |-> "health", status_code |-> 200,
                                status |-> IF result.ai_processor # "None"
                                           THEN "healthy" ELSE "degraded",
                                ai_processor |-> IF result.ai_processor # "None"
                                                 THEN "healthy" ELSE "error"])]
    /\ UNCHANGED <<mgr_vars, tasks, request>>

----------------------------------------------------------------------------
(* SpecProduction: the server started with either class bound to            *)
(* SimpleAIProcessor, then serving up to MaxRequests requests.              *)

InitProduction ==
    \E class \in DOMAIN ProcessorMethods :
        /\ active_conversations = <<>>
        /\ user_profiles = <<>>
        /\ now = 0
        /\ arrivals = <<>>
        /\ processed = <<>>
        /\ tasks = <<>>
        /\ request = [processor |-> "production", SimpleAIProcessor |-> class,
                      startup |-> "pending"]
        /\ result = [status |-> "none"]

NextProduction ==
    \/ \E fault \in {"none", "construct"} : production_startup_event(fault)
    \/ \E fault \in BOOLEAN : production_process_message(fault)
    \/ production_health_check

SpecProduction == InitProduction /\ [][NextProduction]_vars

----------------------------------------------------------------------------
(* SpecFaults: calls of both processors in which a step may fail. A run    *)
(* starts with a call of SimpleAIProcessor pending, or with none, and goes *)
(* on with messages sent through EnterpriseAIProcessor.                    *)

FaultTexts == {<<104, 105>>, <<53>>}

InitFaults ==
    /\ active_conversations = <<>>
    /\ user_profiles = <<>>
    /\ now = 0
    /\ arrivals = <<>>
    /\ processed = <<>>
    /\ tasks = <<>>
    /\ result = [status |-> "none"]
    /\ \/ request = [processor |-> "none"]
       \/ \E text \in FaultTexts, fault \in SimpleFaults :
             request = SimpleRequest(text, "test_user", fault)

NextFaults ==
    \/ \E polarity \in Polarities, choice \in TemplateChoices :
          simple_process_message(polarity, choice)
    \/ \E language \in {"th", "unknown"}, dt \in {0, 1}, fault \in EnterpriseFaults :
          /\ TotalProcessed < MaxCalls
          /\ process_message(Message(SessionUser, SessionId, <<104, 105>>), language,
                             IntentResult("complaint", 5), SentimentResult("negative", 5),
                             NoEntities, <<32, 79, 75, 32>>, dt, fault)
    \/ Tick

SpecFaults == InitFaults /\ [][NextFaults]_vars

----------------------------------------------------------------------------
(* The claims. *)

\* C1 (SpecConc): once both concurrent update_context calls on the session have
\* returned, the cached context of the session has message_count increased by 2
\* (it counts every message processed for the session, the two included) and its
\* history holds the messages of both calls.
BothReturned == DOMAIN tasks = Tasks /\ \A t \in Tasks : tasks[t].pc = "done"

C1_NoLostUpdate ==
    BothReturned =>
        /\ SessionKey \in DOMAIN active_conversations
        /\ active_conversations[SessionKey].message_count
              = Len(ProcessedFor(SessionUser))
        /\ \A t \in Tasks :
              tasks[t].message
                  \in Range(active_conversations[SessionKey].conversation_history)

\* C2 (SpecSession): the history of a cached context is the last
\* min(k, max_history_length) of the k messages update_context has recorded in
\* that context since it was created, in arrival order, the most recent last;
\* so its length is min(k, N) and after N + 5 messages the 5 oldest are gone.
C2_HistoryIsLastN ==
    \A key \in DOMAIN active_conversations :
        /\ active_conversations[key].conversation_history
              = LastN(arrivals[key], MaxHistoryLength)
        /\ Len(active_conversations[key].conversation_history)
              = Min2(Len(arrivals[key]), MaxHistoryLength)

\* N + 5 messages fed to the session, the history full and holding two different messages
C2_Witness ==
    /\ SessionKey \in DOMAIN active_conversations
    /\ Len(arrivals[SessionKey]) = MaxHistoryLength + 5
    /\ Len(active_conversations[SessionKey].conversation_history) = MaxHistoryLength
    /\ active_conversations[SessionKey].conversation_history[1]
          # active_conversations[SessionKey].conversation_history[MaxHistoryLength]
    /\ now > 0

\* C3 (SpecEnterprise): when two successive messages of one user and one session
\* have been processed and no context has expired, one cached context of the user
\* has message_count 2 and a history holding both messages.
C3_SecondMessageSameContext ==
    (/\ Len(ProcessedFor(SessionUser)) = 2
     /\ \A key \in DOMAIN active_conversations :
           IsContextValid(active_conversations[key], now))
    => \E key \in DOMAIN active_conversations :
           /\ active_conversations[key].user_id = SessionUser
           /\ active_conversations[key].message_count = 2
           /\ active_conversations[key].conversation_history = ProcessedFor(SessionUser)

\* C4 (Spec): get_context(u, s) returns a context of user u whose history holds
\* only messages recorded for u, for every user u and session s.
C4_ContextBelongsToUser ==
    \A u \in Users, s \in SessionIds :
        LET context == GetContextFn(Manager, now, u, s, "none").context
        IN  /\ context.user_id = u
            /\ \A i \in 1..Len(context.conversation_history) :
                  context.conversation_history[i].user_id = u

\* C5 (SpecProfile), as claimed: the satisfaction score of every profile is a
\* number in [0,1], whatever the confidence values were.
InUnitInterval(q) == q[2] > 0 /\ 0 <= q[1] /\ q[1] <= q[2]
IsHalf(q) == q[2] > 0 /\ 2 * q[1] = q[2]

C5_SatisfactionInUnitInterval ==
    \A u \in DOMAIN user_profiles : InUnitInterval(user_profiles[u].satisfaction_score)

\* C5 (SpecProfile), amended: when no confidence in sentiment_history is negative
\* the satisfaction score is in [0,1]; and it is 0.5 when the history is empty
\* or the total weight is not positive.
NonNegativeConfidences(sentiment_history) ==
    \A i \in 1..Len(sentiment_history) : sentiment_history[i][2] >= 0

C5_SatisfactionAmended ==
    \A u \in DOMAIN user_profiles :
        LET profile == user_profiles[u]
            n == Len(profile.sentiment_history)
        IN  /\ NonNegativeConfidences(profile.sentiment_history)
                  => InUnitInterval(profile.satisfaction_score)
            /\ (n = 0 \/ TotalWeight(profile.sentiment_history, n) <= 0)
                  => IsHalf(profile.satisfaction_score)

\* a profile that has learnt from positive and negative messages of non-negative
\* confidence, the last of confidence 0, and scores strictly between 0 and 1
C5_Witness ==
    \E u \in DOMAIN user_profiles :
        LET profile == user_profiles[u]
            n == Len(profile.sentiment_history)
        IN  /\ n >= 3
            /\ NonNegativeConfidences(profile.sentiment_history)
            /\ \E i, j \in 1..n : /\ profile.sentiment_history[i][1] = "positive"
                                  /\ profile.sentiment_history[j][1] = "negative"
                                  /\ profile.sentiment_history[i][2] > 0
                                  /\ profile.sentiment_history[j][2] > 0
            /\ profile.sentiment_history[n][2] = 0
            /\ 0 < profile.satisfaction_score[1]
            /\ profile.satisfaction_score[1] < profile.satisfaction_score[2]

\* C6 (SpecProfile): sentiment_history has at most 20 entries and is the
\* (sentiment, confidence, timestamp) entries of the user's most recent
\* min(k, 20) processed messages, in arrival order.
SentimentEntries(messages) ==
    [i \in 1..Len(messages) |->
        <<messages[i].sentiment, messages[i].confidence, messages[i].timestamp>>]

C6_SentimentHistoryIsLast20 ==
    \A u \in DOMAIN user_profiles :
        /\ Len(user_profiles[u].sentiment_history) <= SentimentHistoryCap
        /\ user_profiles[u].sentiment_history
              = LastN(SentimentEntries(ProcessedFor(u)), SentimentHistoryCap)

\* more than 20 messages processed for the user, at different times
C6_Witness ==
    \E u \in DOMAIN user_profiles :
        /\ Len(ProcessedFor(u)) > SentimentHistoryCap + 1
        /\ Len(user_profiles[u].sentiment_history) = SentimentHistoryCap
        /\ user_profiles[u].sentiment_history[SentimentHistoryCap][3] > 0

\* C7 (Spec): the cache of active conversations never holds more than
\* max_memory_conversations entries.
C7_CacheBounded ==
    Cardinality(DOMAIN active_conversations) <= MaxMemoryConversations

\* C8 (SpecSimple): for every non-empty message text, whatever the polarity, the
\* template picked and the failing step, SimpleAIProcessor.process_message
\* returns a result with a non-empty suggested_response and a language among
\* th, en, unknown.
C8_ResponseNonEmpty ==
    (/\ request.processor = "simple"
     /\ result.status # "none"
     /\ Len(request.message_text) > 0)
    => /\ result.status = "returned"
       /\ Len(result.processing_result.suggested_response) > 0
       /\ result.processing_result.language \in Languages

\* a Thai greeting ending in kha, no step failing: the answer is a greeting
\* template whose khrap has been replaced by kha
C8_Witness ==
    /\ request.processor = "simple"
    /\ result.status = "returned"
    /\ request.fault = "none"
    /\ Contains(request.message_text, Kha)
    /\ result.processing_result.language = "th"
    /\ result.processing_result.intent = "greeting"
    /\ Contains(result.processing_result.suggested_response, Kha)
    /\ ~Contains(result.processing_result.suggested_response, Khrap)
    /\ result.processing_result.suggested_response \notin Range(ThaiTemplates["greeting"])

\* C9 (SpecSimple): a message whose text is blank (empty, or whitespace only) is
\* rejected: process_message raises an input error instead of returning a result.
IsBlank(text) == Len(Strip(text)) = 0

C9_BlankRejected ==
    (/\ request.processor = "simple"
     /\ result.status # "none"
     /\ IsBlank(request.message_text))
    => result.status = "raised"

\* C10 (SpecFaults): process_message of either processor never raises, and
\* whenever a step raises into it the result returned has intent error,
\* confidence 0, sentiment neutral, sentiment_score 0.5, language unknown, no
\* entities and the processor's fixed, non-empty apology.
RequestRaises ==
    \/ request.processor = "simple" /\ SimpleRaises(request.fault)
    \/ request.processor = "enterprise" /\ EnterpriseRaises(request.fault)

IsErrorResult(processing_result, apology) ==
    /\ processing_result.intent = "error"
    /\ processing_result.confidence = 0
    /\ processing_result.sentiment = "neutral"
    /\ processing_result.sentiment_score = 5
    /\ processing_result.language = "unknown"
    /\ processing_result.entities = <<>>
    /\ processing_result.suggested_response = apology
    /\ Len(apology) > 0

C10_FaultsAnswered ==
    result.status # "none" =>
        /\ result.status = "returned"
        /\ RequestRaises =>
              IsErrorResult(result.processing_result,
                            IF request.processor = "simple" THEN SimpleApology
                            ELSE EnterpriseApology)

\* a message whose context update has been made when the statistics step raises:
\* the error result is returned, the message stays recorded
C10_Witness ==
    /\ request.processor = "enterprise"
    /\ request.fault = "update_performance_stats"
    /\ result.status = "returned"
    /\ result.processing_result.intent = "error"
    /\ Len(ProcessedFor(SessionUser)) = 2

\* C11 (SpecStorage): in every state, a get_context whose load from storage
\* raises (the session is not cached, or has expired) returns, for every session
\* id given or left out, a context of the requested user with an empty history,
\* message_count 0 and no unresolved issue.
StorageSessions == {SessionId, NoSession}

LoadNeeded(u, s) ==
    LET key == ContextKey(u, SessionOf(u, s, now))
    IN  ~(key \in DOMAIN active_conversations
          /\ IsContextValid(active_conversations[key], now))

C11_LoadFailureAnswered ==
    \A s \in StorageSessions :
        LoadNeeded(SessionUser, s) =>
            LET context == GetContextFn(Manager, now, SessionUser, s, "load_context").context
            IN  /\ context.user_id = SessionUser
                /\ context.conversation_history = <<>>
                /\ context.message_count = 0
                /\ context.unresolved_issues = <<>>

\* the session is cached with a history and an unresolved issue, and has expired:
\* the load is needed, and what the cache held is not what the call may return
C11_Witness ==
    /\ SessionKey \in DOMAIN active_conversations
    /\ ~IsContextValid(active_conversations[SessionKey], now)
    /\ Len(active_conversations[SessionKey].conversation_history) > 0
    /\ Len(active_conversations[SessionKey].unresolved_issues) > 0
    /\ LoadNeeded(SessionUser, SessionId)

\* C12 (SpecSession): get_context treats the cached context of the session as
\* absent exactly when its idle time, now - last_updated, is greater than
\* context_expiry_hours: with an idle time up to and including the expiry it
\* returns the cached context and leaves the manager as it is, and with a longer
\* one it returns a new context.
IdleTime(context) == now - context.last_updated

C12_ExpiresStrictlyAfter ==
    SessionKey \in DOMAIN active_conversations =>
        LET cached == active_conversations[SessionKey]
            got == GetContextFn(Manager, now, SessionUser, SessionId, "none")
        IN  IF IdleTime(cached) > ContextExpiryHours
            THEN got.context = CreateNewContext(SessionUser, SessionId, now)
            ELSE got.context = cached /\ got.m = Manager


\* C14 (SpecStorage): in the context update_context leaves in the cache,
\* context_data['recommended_actions'] contains 'escalate_to_human' exactly when
\* the context's unresolved_issues is not empty, also when the only unresolved
\* issue was added by the message just processed.
Updated(context) == context.message_count > 0

C14_EscalateIffUnresolved ==
    \A key \in DOMAIN active_conversations :
        LET context == active_conversations[key]
        IN  Updated(context) =>
                ("escalate_to_human" \in Range(context.context_data.recommended_actions)
                 <=> Len(context.unresolved_issues) > 0)


\* C15 (SpecRecovery): after every update_context, recommended_actions contains
\* 'apply_recovery_strategy' if and only if at least 2 of the last 3 messages of
\* the session history, the message just processed included, have sentiment
\* 'negative' (the whole history when it has fewer than 3 messages).
NegativeInWindow(context) ==
    Count(LastN(Sentiments(context.conversation_history), 3), "negative")

C15_RecoveryIffTwoOfLastThree ==
    \A key \in DOMAIN active_conversations :
        LET context == active_conversations[key]
        IN  Updated(context) =>
                ("apply_recovery_strategy" \in Range(context.context_data.recommended_actions)
                 <=> NegativeInWindow(context) >= 2)

\* a history longer than the window, two negative messages in it and only one of
\* them in the window: no recovery strategy
C15_Witness ==
    /\ SessionKey \in DOMAIN active_conversations
    /\ Len(active_conversations[SessionKey].conversation_history) > 3
    /\ Count(Sentiments(active_conversations[SessionKey].conversation_history), "negative") >= 2
    /\ NegativeInWindow(active_conversations[SessionKey]) = 1
    /\ "apply_recovery_strategy"
           \notin Range(active_conversations[SessionKey].context_data.recommended_actions)

\* C13 (SpecHang): a call waiting for the context store is abandoned when the
\* configured timeout has passed: no call that started at time 0 is still
\* suspended at a storage await after more than timeout_seconds.
C13_AbandonedAfterTimeout ==
    \A t \in Tasks : tasks[t].pc \in StorageAwaits => now <= TimeoutSeconds


\* C16 (SpecIntent): for the text of the call and every language, each intent's
\* confidence is min(0.9, 0.3 x the number of its keywords contained in the
\* lower-cased text), _classify_intent returns the intent of the highest
\* confidence, the first of them in the keyword table's order when several have
\* it, and (unknown, 0.5) exactly when no keyword of any intent is contained.
ClaimedConfidence(text, language, intent) ==
    LET keywords == IF language = "th" THEN ThaiKeywords ELSE EnglishKeywords
    IN  Min2(9, 3 * KeywordScore(Lower(text), keywords[intent]))

ClaimedClassification(text, language) ==
    LET conf(i) == ClaimedConfidence(text, language, IntentOrder[i])
        matched == {i \in 1..Len(IntentOrder) : conf(i) > 0}
    IN  IF matched = {} THEN <<"unknown", 5>>
        ELSE LET first == CHOOSE i \in matched :
                              /\ \A j \in matched : conf(j) <= conf(i)
                              /\ \A j \in matched : conf(j) = conf(i) => i <= j
             IN  <<IntentOrder[first], conf(first)>>

C16_IntentIsFirstOfHighest ==
    (request.processor = "simple" /\ result.status # "none") =>
        \A language \in {"th", "en"} :
            ClassifyIntent(request.message_text, language)
                = ClaimedClassification(request.message_text, language)


\* C17 (SpecIntent): for the message "Hello, I need help with my order",
\* process_message returns language en, intent support_request and a confidence
\* of at least 0.3.
C17_OrderHelpIsSupportRequest ==
    (/\ request.processor = "simple"
     /\ request.message_text = OrderHelpText
     /\ result.status # "none") =>
        /\ result.processing_result.language = "en"
        /\ result.processing_result.intent = "support_request"
        /\ result.processing_result.confidence >= 3


\* C18 (SpecSentiment): the score a sentiment scorer returns lies in [0,1], on the
\* polarity path and on the keyword path, whatever the number of marker words
\* matched.
C18_ScoreInUnitInterval ==
    result.status = "scored" => (0 <= result.score /\ result.score <= 10)


\* C19 (SpecFusion): each language's score is the sum of 0.5 x the character
\* confidence, 0.3 x the pattern confidence and 0.2 x the library confidence over
\* the estimators that chose it; the fusion returns a language of the highest
\* score, and the character estimator's language when two languages share the
\* highest score.
ClaimedScore(language) ==
    (IF request.char_result[1] = language THEN 5 * request.char_result[2] ELSE 0)
    + (IF request.pattern_result[1] = language THEN 3 * request.pattern_result[2] ELSE 0)
    + (IF request.library_result[1] = language THEN 2 * request.library_result[2] ELSE 0)

HighestScored == {l \in Languages : \A k \in Languages : ClaimedScore(k) <= ClaimedScore(l)}

C19_FusionTieToCharacterEstimator ==
    result.status = "detected" =>
        /\ result.language_result.language \in HighestScored
        /\ result.language_result.confidence = ClaimedScore(result.language_result.language)
        /\ Cardinality(HighestScored) > 1 =>
               result.language_result.language = request.char_result[1]


\* C21 (SpecIssues), as claimed: update_context appends the current message's
\* intent to unresolved_issues if and only if the intent is complaint or
\* support_request, it is not listed yet, and none of the last 5 history messages,
\* the current one included, is a compliment, satisfaction or goodbye of positive
\* sentiment; otherwise it leaves unresolved_issues as it was.
IssuesBefore ==
    IF SessionKey \in DOMAIN active_conversations
        /\ IsContextValid(active_conversations[SessionKey], now)
    THEN active_conversations[SessionKey].unresolved_issues
    ELSE <<>>

ResolutionInWindow(history) ==
    \E i \in 1..Len(LastN(history, 5)) :
        /\ LastN(history, 5)[i].intent \in {"compliment", "satisfaction", "goodbye"}
        /\ LastN(history, 5)[i].sentiment = "positive"

IssuesAfter(issue_intents) ==
    LET history == active_conversations'[SessionKey].conversation_history
        intent == history[Len(history)].intent
    IN  IF /\ intent \in issue_intents
           /\ intent \notin Range(IssuesBefore)
           /\ ~ResolutionInWindow(history)
        THEN Append(IssuesBefore, intent)
        ELSE IssuesBefore

MessageRecorded == TotalProcessed' = TotalProcessed + 1

C21_IssueAddedIff ==
    [][MessageRecorded =>
          active_conversations'[SessionKey].unresolved_issues
              = IssuesAfter({"complaint", "support_request"})]_vars

\* C21, amended: the same with the intents complaint, support_request and problem.
C21_IssueAddedIffAmended ==
    [][MessageRecorded =>
          active_conversations'[SessionKey].unresolved_issues
              = IssuesAfter({"complaint", "support_request", "problem"})]_vars

\* a complaint recorded as an issue although the history holds a positive
\* compliment, which has left the window of 5
C21_Witness ==
    /\ SessionKey \in DOMAIN active_conversations
    /\ LET context == active_conversations[SessionKey]
           history == context.conversation_history
       IN  /\ Len(history) > 5
           /\ history[1].intent = "compliment" /\ history[1].sentiment = "positive"
           /\ history[Len(history)].intent = "complaint"
           /\ context.unresolved_issues = <<"problem", "complaint">>


\* C22 (SpecIssues): after every update_context the conversation_flow pattern of
\* the cached context is 'initial' iff its history has fewer than 2 messages,
\* otherwise 'single_intent' iff all messages have one intent, otherwise 'simple'
\* iff the history has at most 4 messages, otherwise 'complex'; and the
\* transitions list has len(history) - 1 entries.
ClaimedPattern(history) ==
    IF Len(history) < 2 THEN "initial"
    ELSE IF \A i, j \in 1..Len(history) : history[i].intent = history[j].intent
         THEN "single_intent"
    ELSE IF Len(history) <= 4 THEN "simple"
    ELSE "complex"

C22_FlowPatternByHistory ==
    \A key \in DOMAIN active_conversations :
        LET context == active_conversations[key]
            flow == context.context_data.conversation_flow
        IN  Updated(context) =>
                /\ flow.pattern = ClaimedPattern(context.conversation_history)
                /\ Len(flow.transitions) = Len(context.conversation_history) - 1

\* more than 4 messages of one intent: single_intent, not complex
C22_Witness ==
    /\ SessionKey \in DOMAIN active_conversations
    /\ Len(active_conversations[SessionKey].conversation_history) > 4
    /\ active_conversations[SessionKey].context_data.conversation_flow.pattern = "single_intent"


\* C23 (SpecChars): with ratio = (number of Thai-block code points) / (number of
\* non-whitespace characters), every text of a ratio above 0.3 is classified th
\* by the character estimator, with confidence min(0.95, 0.6 + 0.35 x ratio): a
\* text of Thai characters only gets th at 0.95.
ThaiCodePoints(text) == Cardinality({i \in 1..Len(text) : IsThaiChar(text[i])})

C23_ThaiRatioByCodePoints ==
    LET thai == ThaiCodePoints(request.text)
        total == NonSpaceCount(request.text)
    IN  (result.status = "estimated" /\ 10 * thai > 3 * total) =>
            /\ result.language = "th"
            /\ result.confidence[1] * 100 * total
                   = Min2(95 * total, 60 * total + 35 * thai) * result.confidence[2]


\* C24 (SpecStorage): after every update_context the user_engagement of the
\* cached context is at least 0.4, and 'increase_engagement' is in the
\* recommended_actions of no cached context.
C24_EngagementAtLeast40 ==
    \A key \in DOMAIN active_conversations :
        LET context == active_conversations[key]
        IN  /\ Updated(context) => context.context_data.user_engagement >= 40
            /\ context.session_duration = 0
            /\ "increase_engagement" \notin Range(context.context_data.recommended_actions)

\* the least score, after the first message of a session
C24_Witness ==
    /\ SessionKey \in DOMAIN active_conversations
    /\ active_conversations[SessionKey].message_count = 1
    /\ active_conversations[SessionKey].context_data.user_engagement = 40
    /\ "escalate_to_human"
           \notin Range(active_conversations[SessionKey].context_data.recommended_actions)


\* C25 (Spec): after any sequence of update_context calls without a storage
\* fault, every cached profile has interaction_count = the sum of its
\* frequent_intents counts = the sum of its platform_usage counts = the number of
\* update_context calls made for its user, over all the user's sessions; a user
\* without a profile has had no call.
RECURSIVE SumCounts(_, _)
SumCounts(d, S) ==
    IF S = {} THEN 0
    ELSE LET k == CHOOSE x \in S : TRUE IN d[k] + SumCounts(d, S \ {k})

C25_ProfileCountersAgree ==
    \A u \in Users :
        IF u \in DOMAIN user_profiles
        THEN LET profile == user_profiles[u]
             IN  /\ profile.interaction_count = Len(ProcessedFor(u))
                 /\ SumCounts(profile.frequent_intents, DOMAIN profile.frequent_intents)
                        = profile.interaction_count
                 /\ SumCounts(profile.platform_usage, DOMAIN profile.platform_usage)
                        = profile.interaction_count
        ELSE Len(ProcessedFor(u)) = 0

\* a user with two calls of one intent, in two sessions
C25_Witness ==
    \E u \in Users :
        /\ u \in DOMAIN user_profiles
        /\ user_profiles[u].interaction_count = 2
        /\ \E i \in DOMAIN user_profiles[u].frequent_intents :
               user_profiles[u].frequent_intents[i] = 2
        /\ \A s \in SessionIds : ContextKey(u, s) \in DOMAIN active_conversations


IsPrefix(s, t) == Len(s) <= Len(t) /\ SubSeq(t, 1, Len(s)) = s

IssuesGrow ==
    SessionKey \in DOMAIN active_conversations' =>
        LET after == active_conversations'[SessionKey]
        IN  /\ IsPrefix(IssuesBefore, after.unresolved_issues)
            /\ \A i, j \in 1..Len(after.unresolved_issues) :
                   after.unresolved_issues[i] = after.unresolved_issues[j] => i = j
            /\ Range(after.unresolved_issues)
                   \subseteq {"complaint", "support_request", "problem"}
            /\ (MessageRecorded /\ IssuesBefore # <<>>) =>
                   "escalate_to_human" \in Range(after.context_data.recommended_actions)

C27_IssuesOnlyGrow == [][IssuesGrow]_vars

\* two issues recorded, then a positive compliment: both still listed, and the
\* escalation recommended
C27_Witness ==
    /\ SessionKey \in DOMAIN active_conversations
    /\ LET context == active_conversations[SessionKey]
           history == context.conversation_history
       IN  /\ Len(context.unresolved_issues) = 2
           /\ history[Len(history)].intent = "compliment"
           /\ history[Len(history)].sentiment = "positive"
           /\ "escalate_to_human" \in Range(context.context_data.recommended_actions)


\* C28 (SpecStorage): get_context on a cached context that has not expired
\* returns that context and changes nothing of the manager (history,
\* message_count, last_updated, unresolved_issues, the cache keys); and a step
\* that records no message leaves every valid cached context as it was, so
\* only update_context advances last_updated.
ValidCached(key) ==
    /\ key \in DOMAIN active_conversations
    /\ IsContextValid(active_conversations[key], now)

ReadsLeaveValidContexts ==
    /\ ValidCached(SessionKey) =>
          \A fault \in Faults :
              LET got == GetContextFn(Manager, now, SessionUser, SessionId, fault)
              IN  /\ got.m = Manager
                  /\ got.context = active_conversations[SessionKey]
                  /\ got.cached
    /\ \A key \in DOMAIN active_conversations :
          (ValidCached(key) /\ ~MessageRecorded) =>
              /\ key \in DOMAIN active_conversations'
              /\ active_conversations'[key] = active_conversations[key]

C28_GetContextReadOnly == [][ReadsLeaveValidContexts]_vars

\* a context updated an hour ago, still valid, with an issue recorded
C28_Witness ==
    /\ ValidCached(SessionKey)
    /\ active_conversations[SessionKey].message_count > 0
    /\ active_conversations[SessionKey].last_updated < now
    /\ active_conversations[SessionKey].unresolved_issues # <<>>


\* C29 (SpecLanguage): for a text of at least 3 characters after stripping,
\* detect_language_with_confidence answers th or en, never unknown: the
\* character estimator votes th or en with at least 0.3, and the confidence
\* returned lies between 0.15 and 0.89; unknown is answered only for a shorter
\* text, with confidence 0 and method insufficient_text.
C29_NeverUnknownOnSufficientText ==
    result.status = "language_detected" =>
        LET language_result == result.language_result
            confidence == language_result.confidence
            char_result == DetectByCharacters(request.text)
            sufficient == Len(Strip(request.text)) >= MinTextLength
        IN  /\ sufficient =>
                  /\ language_result.language \in {"th", "en"}
                  /\ char_result[1] \in {"th", "en"}
                  /\ 10 * char_result[2][1] >= 3 * char_result[2][2]
                  /\ 100 * confidence[1] >= 15 * confidence[2]
                  /\ 100 * confidence[1] <= 89 * confidence[2]
            /\ language_result.language = "unknown" <=> ~sufficient
            /\ language_result.language = "unknown" =>
                  /\ confidence[1] = 0
                  /\ language_result.detection_method = "insufficient_text"

\* the three estimators agree on th with their highest confidences: 0.89
C29_Witness ==
    /\ result.status = "language_detected"
    /\ ~request.fault
    /\ Len(Strip(request.text)) >= MinTextLength
    /\ result.language_result.language = "th"
    /\ 100 * result.language_result.confidence[1] = 89 * result.language_result.confidence[2]


\* C30 (SpecProduction): once startup_event has run with SimpleAIProcessor
\* imported from simple_processor and constructed without error, ai_processor
\* is set, the health endpoint reports healthy, every POST /api/v1/process is
\* passed to ai_processor.process_message, and none is answered 503.
C30_ProcessorAvailableAfterStartup ==
    (/\ request.processor = "production"
     /\ result.status = "serving"
     /\ request.SimpleAIProcessor = "SimpleAIProcessor"
     /\ request.startup = "none") =>
        /\ result.ai_processor # "None"
        /\ result.passed = Cardinality({i \in 1..Len(result.responses) :
                                           result.responses[i].endpoint = "process"})
        /\ \A i \in 1..Len(result.responses) :
              /\ result.responses[i].endpoint = "process" =>
                     result.responses[i].status_code # 503
              /\ result.responses[i].endpoint = "health" =>
                     result.responses[i].ai_processor = "healthy"

====
